---- MODULE Spec2Model ----
(***************************************************************************)
(* The layered-image snapshotter of snapshots/overlay: the orchestrator    *)
(* (Prepare, Active, View, Commit, Remove, Cleanup, Stat, Mounts), the     *)
(* overlaybd read-only driver (attach / detach of a TCMU target and its    *)
(* SCSI loopback) and the metadata store they are written against.         *)
(*                                                                         *)
(* Every public operation is one action: the whole call, from beginning    *)
(* its metadata transaction to its return, with every deferred function.   *)
(* The environment (mkdir, mount, external binaries, sysfs writes, the     *)
(* store's commit) may fail at one step of a call; the step is the call's  *)
(* input "fault".  A compensating RemoveAll does what the file system      *)
(* allows: it cannot remove a mount point.                                 *)
(***************************************************************************)
EXTENDS Integers, Sequences, FiniteSets, TLC

\* Keys of active layers and names of committed layers: one name space,
\* as the store looks both up with the same GetInfo.
Names == {"a", "b"}

\* Number of layers the store is let to create in one behaviour.
MaxId == 2

\* Ids a call can be working with: those created and the next one.
Ids == 1..(MaxId + 1)

(***************************************************************************)
(* Labels.  A label set is a record of the labels the code reads:          *)
(*   blob  - snapshot/overlaybd/blob-digest and blob-size both present     *)
(*   turbo - snapshot/overlaybd/turbo-oci/target-digest present            *)
(*   ref   - snapshot/cri.image-ref present (and a valid reference)        *)
(*   sref  - value of containerd.io/snapshot.ref ("" when absent)          *)
(*   home  - overlay.active.path: "" absent, "abs" absolute, "rel" not     *)
(*   quota - value of overlay.active-quota, a quantity ("" when absent)    *)
(*   rw    - the internal rwlayer marker                                   *)
(***************************************************************************)
NoLabels ==
  [blob |-> FALSE, turbo |-> FALSE, ref |-> FALSE, sref |-> "",
   home |-> "", quota |-> "", rw |-> FALSE]

\* Label sets a caller passes to Prepare.
PrepareLabels ==
  {NoLabels,
   [NoLabels EXCEPT !.blob = TRUE, !.turbo = TRUE, !.ref = TRUE],
   [NoLabels EXCEPT !.blob = TRUE, !.ref = TRUE, !.sref = "b"]}

\* Label sets a caller passes to Active and View.
ActiveLabels ==
  {NoLabels,
   [NoLabels EXCEPT !.home = "abs"],
   [NoLabels EXCEPT !.quota = "1Gi"]}

(***************************************************************************)
(* State.                                                                  *)
(***************************************************************************)
VARIABLES
  cfg,      \* the snapshotter's configuration, fixed at construction
  rows,     \* the store's committed contents: name -> row
  nextId,   \* the store's id sequence (part of its transactional state)
  wlock,    \* TRUE while a read-write transaction is open and never ended
  dirs,     \* layer directories on disk: path -> contents
  att,      \* sysfs attachment per layer id
  issued,   \* key -> mount list the successful call that made it returned
  lastOp,   \* the last call and what it returned
  calls,    \* per caller: where its call in progress stands
  conf,     \* a descriptor file, its temporary file and its writer
  arch,     \* a layer tree under extraction and the last archive entry
  gc,       \* the image collector, the runtime it watches and the clock
  stack     \* the descriptor files of the layer directories, the last written

vars ==
  <<cfg, rows, nextId, wlock, dirs, att, issued, lastOp, calls, conf, arch, gc,
    stack>>

NoRow == [kind |-> "none", id |-> 0, parent |-> "", labels |-> NoLabels]

Exists(r) == r.kind # "none"

NoMounts == <<>>

(***************************************************************************)
(* Path resolution.  A path is the record of its components; base is the   *)
(* directory the layer lives under: the snapshotter root ("root"), the     *)
(* default upper root (cfg.defaultUpperDir, which is "root" when none was  *)
(* configured) or the caller's active path ("home", then below             *)
(* .rwlayer/<key>).                                                        *)
(***************************************************************************)
getActivePathOk(labels) == labels.home = "abs"

getActivePathErr(labels) ==
  IF labels.home = "abs" THEN ""
  ELSE IF labels.home = "rel" THEN "InvalidArgument"
  ELSE "NotFound"

\* The choice with the rwlayer label looked at before the active path.
layerPathRwFirst(labels, id, key, sub) ==
  IF labels.rw
    THEN [base |-> cfg.defaultUpperDir, key |-> "", id |-> id, sub |-> sub]
  ELSE IF getActivePathOk(labels)
    THEN [base |-> "home", key |-> key, id |-> id, sub |-> sub]
  ELSE [base |-> "root", key |-> "", id |-> id, sub |-> sub]

layerPath(labels, id, key, sub) ==
  IF getActivePathOk(labels)
    THEN [base |-> "home", key |-> key, id |-> id, sub |-> sub]
  ELSE IF labels.rw
    THEN [base |-> cfg.defaultUpperDir, key |-> "", id |-> id, sub |-> sub]
  ELSE [base |-> "root", key |-> "", id |-> id, sub |-> sub]

fsPath(labels, id, key) == layerPath(labels, id, key, "")

upperPath(labels, id, key) == layerPath(labels, id, key, "upper")

lowerPath(labels, id, key) == layerPath(labels, id, key, "lower")

\* Sizes are counted in MiB.
MinActiveQuota == 1024

MaxActiveQuota == 67108864

\* Quantities a caller writes in the overlay.active-quota label.
QuotaValues == {"1023Mi", "1Gi", "64Ti", "65Ti"}

\* resource.MustParse(quota).Value(), in MiB.
ParseQuantity(q) ==
  CASE q = "1023Mi" -> 1023
    [] q = "1Gi"    -> 1024
    [] q = "64Ti"   -> 67108864
    [] q = "65Ti"   -> 68157440

\* getActiveQuota(info): the size to set up, -1 with an error when there is
\* none to set up.
getActiveQuota(labels) ==
  IF labels.quota = "" THEN [size |-> -1, err |-> "NotFound"]
  ELSE IF \/ ParseQuantity(labels.quota) < MinActiveQuota
          \/ ParseQuantity(labels.quota) > MaxActiveQuota
    THEN [size |-> -1, err |-> "Error"]
  ELSE [size |-> ParseQuantity(labels.quota), err |-> ""]

\* filepath.Join(dir, name)
Join(p, name) == [p EXCEPT !.sub = name]

\* idToDirectory: always below <root>/snapshots, whatever the labels.
idToDirectory(ids) ==
  [i \in 1..Len(ids) |-> [base |-> "root", key |-> "", id |-> ids[i], sub |-> ""]]

(***************************************************************************)
(* Directory contents.                                                     *)
(***************************************************************************)
EmptyDir ==
  [upper |-> FALSE, lower |-> FALSE, lowerMounted |-> FALSE,
   quotaMounted |-> FALSE, device |-> FALSE, config |-> "none",
   tar |-> FALSE, tarMeta |-> FALSE]

IsEmptyDir(d) == d = EmptyDir

HasDir(ds, p) == p \in DOMAIN ds

PutDir(ds, p, d) == [q \in DOMAIN ds \cup {p} |-> IF q = p THEN d ELSE ds[q]]

DropDirs(ds, ps) == [q \in DOMAIN ds \ ps |-> ds[q]]

\* What os.RemoveAll leaves of a tree: a mount point cannot be removed
\* (EBUSY), nor can the directories above it; everything else goes.
Survivor(d) ==
  [EmptyDir EXCEPT !.upper = d.quotaMounted, !.lower = d.lowerMounted,
                   !.lowerMounted = d.lowerMounted,
                   !.quotaMounted = d.quotaMounted]

Mounted(d) == d.lowerMounted \/ d.quotaMounted

RemoveAllDirs(ds, ps) ==
  LET gone == {p \in ps \cap DOMAIN ds : ~Mounted(ds[p])}
  IN  [q \in DOMAIN ds \ gone |->
         IF q \in ps THEN Survivor(ds[q]) ELSE ds[q]]

RemoveAll(ds, p) == RemoveAllDirs(ds, {p})

\* The layer directories below <home>/.rwlayer/<key>.
HomeDirs(ds, key) == {p \in DOMAIN ds : p.base = "home" /\ p.key = key}

NoPath == [base |-> "", key |-> "", id |-> 0, sub |-> ""]

(***************************************************************************)
(* Mount descriptions.  Every source is a path record: the word overlay    *)
(* is the path with base "overlay", the block device of layer id the path  *)
(* with base "dev".  An option is its name and the path it carries.        *)
(***************************************************************************)
Opt(name, p) == [opt |-> name, path |-> p]

Flag(name) == [opt |-> name, path |-> NoPath]

OverlaySource == [base |-> "overlay", key |-> "", id |-> 0, sub |-> ""]

DevicePath(id) == [base |-> "dev", key |-> "", id |-> id, sub |-> ""]

(***************************************************************************)
(* The metadata store (snapshots/storage).  A store value is the record    *)
(* [rows, nextId] a transaction works on; the variables rows and nextId    *)
(* hold the last committed value.  A read-write transaction is exclusive:  *)
(* a second one cannot begin until the first has been committed or rolled  *)
(* back.  Each operation is an error ("" for none) and a new store value.  *)
(***************************************************************************)
Store == [rows |-> rows, nextId |-> nextId]

GetInfo(s, key) == s.rows[key]

GetInfoErr(s, key) == IF Exists(s.rows[key]) THEN "" ELSE "NotFound"

Children(s, key) ==
  {k \in Names : Exists(s.rows[k]) /\ s.rows[k].parent = key}

IDMap(s) == {s.rows[k].id : k \in {n \in Names : Exists(s.rows[n])}}

RECURSIVE ParentIDsOf(_, _, _)
ParentIDsOf(s, parent, fuel) ==
  IF parent = "" \/ fuel = 0 \/ ~Exists(s.rows[parent]) THEN <<>>
  ELSE <<s.rows[parent].id>> \o ParentIDsOf(s, s.rows[parent].parent, fuel - 1)

ParentIDs(s, parent) == ParentIDsOf(s, parent, Cardinality(Names))

\* create snapshot (key, parent, kind): without a transaction nothing can
\* be created; the key must be unused; the parent must be Committed.
CreateSnapshotErr(s, inTx, key, parent) ==
  IF ~inTx THEN "NoTransaction"
  ELSE IF Exists(s.rows[key]) THEN "AlreadyExists"
  ELSE IF parent # "" /\ ~Exists(s.rows[parent]) THEN "NotFound"
  ELSE IF parent # "" /\ s.rows[parent].kind # "Committed" THEN "InvalidArgument"
  ELSE ""

CreateSnapshot(s, kind, key, parent, labels) ==
  [rows |-> [s.rows EXCEPT ![key] =
               [kind |-> kind, id |-> s.nextId, parent |-> parent,
                labels |-> labels]],
   nextId |-> s.nextId + 1]

\* commit active (key, name, usage): moves the Active row to name.
CommitActiveErr(s, key, name) ==
  IF ~Exists(s.rows[key]) THEN "NotFound"
  ELSE IF s.rows[key].kind # "Active" THEN "FailedPrecondition"
  ELSE IF Exists(s.rows[name]) THEN "AlreadyExists"
  ELSE ""

CommitActive(s, key, name) ==
  [s EXCEPT !.rows =
     [k \in Names |->
        IF k = name THEN [s.rows[key] EXCEPT !.kind = "Committed"]
        ELSE IF k = key THEN NoRow
        ELSE s.rows[k]]]

\* remove by key: rejected while a child depends on the layer.
StoreRemoveErr(s, key) ==
  IF ~Exists(s.rows[key]) THEN "NotFound"
  ELSE IF Children(s, key) # {} THEN "FailedPrecondition"
  ELSE ""

StoreRemove(s, key) == [s EXCEPT !.rows[key] = NoRow]

(***************************************************************************)
(* The overlaybd read-only driver.                                         *)
(***************************************************************************)
\* One layer's attachment: the TCMU target directory dev_<snID>, the
\* overlaybd-service process of snID, the loopback node directory of its
\* WWN, its tpgt_1 and lun_0 directories and the LUN symlink.
Absent ==
  [target |-> FALSE, proc |-> FALSE, loop |-> FALSE, tpgt |-> FALSE,
   lun |-> FALSE, link |-> FALSE]

Attached ==
  [target |-> TRUE, proc |-> TRUE, loop |-> TRUE, tpgt |-> TRUE,
   lun |-> TRUE, link |-> TRUE]

\* The steps of doOverlayBD at which the environment can fail.
AttachFaults ==
  {"mkTarget", "ctl1", "ctl2", "rmLog", "enable", "enableAgain",
   "cmdTimeout", "readyBad", "readyTimeout", "mkLoop", "mkLun", "nexus",
   "symlink", "address", "probe"}

\* The deferred functions of doOverlayBD, in the order they are registered.
\* configfs refuses to remove a target a LUN still links to.
RemoveTarget(a) == IF a.link THEN a ELSE [a EXCEPT !.target = FALSE]

KillService(a) == [a EXCEPT !.proc = FALSE]

RemoveLoopback(a) ==
  [a EXCEPT !.link = FALSE, !.lun = FALSE, !.tpgt = FALSE, !.loop = FALSE]

RemoveLink(a) == [a EXCEPT !.link = FALSE]

\* doOverlayBD(snDir, snID) on the attachment a of snID.  Writing 1 to
\* enable starts the service process of the target.
doOverlayBD(a, fault) ==
  LET f  == IF a.link /\ fault \notin AttachFaults THEN "symlink" ELSE fault
      a1 == [a EXCEPT !.target = TRUE]
      a2 == [a1 EXCEPT !.proc = TRUE]
      a3 == [a2 EXCEPT !.loop = TRUE]
      a4 == [a3 EXCEPT !.tpgt = TRUE, !.lun = TRUE]
      a5 == [a4 EXCEPT !.link = TRUE]
  IN  IF f = "mkTarget" THEN [err |-> "Error", att |-> a]
      ELSE IF f \in {"ctl1", "ctl2", "rmLog", "enable"}
        THEN [err |-> "Error", att |-> RemoveTarget(a1)]
      ELSE IF f = "enableAgain"
        THEN [err |-> "Error", att |-> RemoveTarget(KillService(a1))]
      ELSE IF f \in {"cmdTimeout", "readyBad", "readyTimeout", "mkLoop"}
        THEN [err |-> "Error", att |-> RemoveTarget(KillService(a2))]
      ELSE IF f = "mkLun"
        THEN [err |-> "Error", att |-> RemoveTarget(KillService(a3))]
      ELSE IF f \in {"nexus", "symlink"}
        THEN [err |-> "Error",
              att |-> RemoveTarget(KillService(RemoveLoopback(a4)))]
      ELSE IF f \in {"address", "probe"}
        THEN [err |-> "Error",
              att |-> RemoveTarget(KillService(RemoveLoopback(RemoveLink(a5))))]
      ELSE [err |-> "", att |-> a5]

\* The steps of doOverlayBD in the order of its code, and the step a
\* failure belongs to.
AttachSteps ==
  <<"mkTarget", "ctl1", "ctl2", "rmLog", "enable", "cmdTimeout", "ready",
    "mkLoop", "mkLun", "nexus", "symlink", "address", "probe">>

StepOf(fault) ==
  IF fault = "enableAgain" THEN "enable"
  ELSE IF fault \in {"readyBad", "readyTimeout"} THEN "ready"
  ELSE fault

StepIndex(step) == CHOOSE i \in DOMAIN AttachSteps : AttachSteps[i] = step

\* The deferred functions doOverlayBD has registered when it fails with
\* fault, in the order of their defer statements: the removal of the
\* target directory after MkdirAll(targetPath), the SIGINT after the
\* enable loop (which a write that keeps returning EAGAIN leaves by its
\* end), the removal of lun_0, tpgt_1 and the loopback node after
\* MkdirAll(lunPath), the removal of the link after Symlink.
Deferred(fault) ==
  LET n == StepIndex(StepOf(fault))
  IN  (IF n > StepIndex("mkTarget") THEN <<"target">> ELSE <<>>) \o
      (IF n > StepIndex("enable") \/ fault = "enableAgain"
         THEN <<"kill">> ELSE <<>>) \o
      (IF n > StepIndex("mkLun") THEN <<"loopback">> ELSE <<>>) \o
      (IF n > StepIndex("symlink") THEN <<"link">> ELSE <<>>)

\* What the steps passed before the failure have made of attachment a.
MadeBefore(a, fault) ==
  LET n == StepIndex(StepOf(fault))
  IN  [a EXCEPT !.target = @ \/ n > StepIndex("mkTarget"),
                !.proc   = @ \/ n > StepIndex("enable"),
                !.loop   = @ \/ n > StepIndex("mkLoop"),
                !.tpgt   = @ \/ n > StepIndex("mkLun"),
                !.lun    = @ \/ n > StepIndex("mkLun"),
                !.link   = @ \/ n > StepIndex("symlink")]

\* One deferred function at work.
RunDeferred(a, d) ==
  CASE d = "target" -> RemoveTarget(a)
    [] d = "kill" -> KillService(a)
    [] d = "loopback" -> RemoveLoopback(a)
    [] d = "link" -> RemoveLink(a)

\* The deferred functions run when the function returns, the last
\* registered first.
RECURSIVE RunAllDeferred(_, _)
RunAllDeferred(a, ds) ==
  IF ds = <<>> THEN a
  ELSE RunAllDeferred(RunDeferred(a, ds[Len(ds)]), SubSeq(ds, 1, Len(ds) - 1))

\* The steps of Overlaybd.Cleanup in the order of its code: the LUN
\* symlink, the lun_0, tpgt_1 and loopback node directories, the service
\* process, the target directory.
CleanupSteps == <<"link", "lun", "tpgt", "loop", "kill", "target">>

CleanupFaults == {CleanupSteps[i] : i \in 1..Len(CleanupSteps)}

\* What one step of Cleanup leaves of attachment a.  os.RemoveAll of a
\* path that is not there does nothing, and killProcess returns at once
\* when it finds no process.
CleanupStep(a, step) ==
  CASE step = "link" -> RemoveLink(a)
    [] step = "lun" -> [a EXCEPT !.lun = FALSE]
    [] step = "tpgt" -> [a EXCEPT !.tpgt = FALSE]
    [] step = "loop" -> [a EXCEPT !.loop = FALSE]
    [] step = "kill" -> KillService(a)
    [] step = "target" -> RemoveTarget(a)

\* A step can fail only on something that is there: a removal on an
\* existing path, the wait for the process on a running process.
CanFail(a, step) ==
  CASE step = "link" -> a.link
    [] step = "lun" -> a.lun
    [] step = "tpgt" -> a.tpgt
    [] step = "loop" -> a.loop
    [] step = "kill" -> a.proc
    [] step = "target" -> a.target

\* Cleanup from step i on: the first failing step returns its error.
RECURSIVE CleanupFrom(_, _, _)
CleanupFrom(a, i, fault) ==
  IF i > Len(CleanupSteps) THEN [err |-> "", att |-> a]
  ELSE IF fault = CleanupSteps[i] /\ CanFail(a, CleanupSteps[i])
    THEN [err |-> "Error", att |-> a]
  ELSE CleanupFrom(CleanupStep(a, CleanupSteps[i]), i + 1, fault)

\* Cleanup that stops the service process before it removes anything.
DriverCleanupKillFirst(a, fault) ==
  IF fault = "kill" /\ a.proc THEN [err |-> "Error", att |-> a]
  ELSE CleanupFrom(KillService(a), 1, fault)

\* Overlaybd.Cleanup(id): detach.  killProcess can time out while the
\* process is still running; the target directory is then left.
DriverCleanup(a, fault) == CleanupFrom(a, 1, fault)

(***************************************************************************)
(* The stack descriptor config.v1.json: its JSON form and its file.        *)
(***************************************************************************)

\* The JSON text of a string: json.Marshal writes &, < and > as \u00XX.
EscapePairs ==
  {<<"/var/a&b/1", "/var/a\\u0026b/1">>,
   <<"/var/a&b/1/init-debug.log", "/var/a\\u0026b/1/init-debug.log">>}

EncodeString(s) ==
  IF \E p \in EscapePairs : p[1] = s
    THEN (CHOOSE p \in EscapePairs : p[1] = s)[2]
  ELSE s

\* The string of a JSON text, taken as written (no \u00XX read back).
DecodeStringRaw(t) == t

DecodeString(t) ==
  IF \E p \in EscapePairs : p[2] = t
    THEN (CHOOSE p \in EscapePairs : p[2] = t)[1]
  ELSE t

DigitChars == <<"0", "1", "2", "3", "4", "5", "6", "7", "8", "9">>

\* The decimal text of an unsigned integer, and the integer of such a text.
RECURSIVE FormatUint(_)
FormatUint(n) ==
  IF n < 10 THEN <<DigitChars[n + 1]>>
  ELSE Append(FormatUint(n \div 10), DigitChars[(n % 10) + 1])

RECURSIVE ParseUint(_)
ParseUint(ds) ==
  IF ds = <<>> THEN 0
  ELSE ParseUint(SubSeq(ds, 1, Len(ds) - 1)) * 10
         + ((CHOOSE i \in 1..10 : DigitChars[i] = ds[Len(ds)]) - 1)

\* JSON values: a kind and, for a scalar, its text.
JString(s) == [t |-> "string", v |-> <<EncodeString(s)>>]

JNumber(n) == [t |-> "number", v |-> FormatUint(n)]

JBool(b) == [t |-> "bool", v |-> <<IF b THEN "true" ELSE "false">>]

\* A LowerConfig as a JSON object: every field is omitempty.
MarshalLower(l) ==
  LET all == [file |-> JString(l.File), digest |-> JString(l.Digest),
              size |-> JNumber(l.Size), dir |-> JString(l.Dir),
              repoBlobUrl |-> JString(l.RepoBlobURL),
              targetDigest |-> JString(l.TargetDigest),
              targetFile |-> JString(l.TargetFile),
              gzipIndex |-> JString(l.GzipIndex)]
      empty == [file |-> l.File = "", digest |-> l.Digest = "",
                size |-> l.Size = 0, dir |-> l.Dir = "",
                repoBlobUrl |-> l.RepoBlobURL = "",
                targetDigest |-> l.TargetDigest = "",
                targetFile |-> l.TargetFile = "",
                gzipIndex |-> l.GzipIndex = ""]
  IN  [k \in {k \in DOMAIN all : ~empty[k]} |-> all[k]]

MarshalUpper(u) ==
  LET all == [index |-> JString(u.Index), data |-> JString(u.Data)]
      empty == [index |-> u.Index = "", data |-> u.Data = ""]
  IN  [k \in {k \in DOMAIN all : ~empty[k]} |-> all[k]]

\* json.Marshal of a Config: accelerationLayer and recordTracePath are
\* omitempty, the other fields are always written.
Marshal(c) ==
  LET all == [imageRef |-> JString(c.ImageRef),
              repoBlobUrl |-> JString(c.RepoBlobURL),
              lowers |-> [t |-> "array",
                          v |-> [i \in 1..Len(c.Lowers) |->
                                   MarshalLower(c.Lowers[i])]],
              upper |-> [t |-> "object", v |-> MarshalUpper(c.Upper)],
              resultFile |-> JString(c.ResultFile),
              accelerationLayer |-> JBool(c.AccelerationLayer),
              recordTracePath |-> JString(c.RecordTracePath),
              proxy |-> JString(c.Proxy)]
      omitted == (IF c.AccelerationLayer THEN {} ELSE {"accelerationLayer"})
                   \cup (IF c.RecordTracePath = "" THEN {"recordTracePath"}
                         ELSE {})
  IN  [k \in DOMAIN all \ omitted |-> all[k]]

\* json.Unmarshal into a zero value: a key that is not in the document
\* leaves the field at its zero value.
StringOf(doc, k) == IF k \in DOMAIN doc THEN DecodeString(doc[k].v[1]) ELSE ""

UintOf(doc, k) == IF k \in DOMAIN doc THEN ParseUint(doc[k].v) ELSE 0

BoolOf(doc, k) == IF k \in DOMAIN doc THEN doc[k].v[1] = "true" ELSE FALSE

UnmarshalLower(doc) ==
  [File |-> StringOf(doc, "file"), Digest |-> StringOf(doc, "digest"),
   Size |-> UintOf(doc, "size"), Dir |-> StringOf(doc, "dir"),
   RepoBlobURL |-> StringOf(doc, "repoBlobUrl"),
   TargetDigest |-> StringOf(doc, "targetDigest"),
   TargetFile |-> StringOf(doc, "targetFile"),
   GzipIndex |-> StringOf(doc, "gzipIndex")]

Unmarshal(doc) ==
  [ImageRef |-> StringOf(doc, "imageRef"),
   RepoBlobURL |-> StringOf(doc, "repoBlobUrl"),
   Lowers |-> IF "lowers" \in DOMAIN doc
                THEN [i \in 1..Len(doc.lowers.v) |->
                        UnmarshalLower(doc.lowers.v[i])]
              ELSE <<>>,
   Upper |-> IF "upper" \in DOMAIN doc
               THEN [Index |-> StringOf(doc.upper.v, "index"),
                     Data |-> StringOf(doc.upper.v, "data")]
             ELSE [Index |-> "", Data |-> ""],
   ResultFile |-> StringOf(doc, "resultFile"),
   AccelerationLayer |-> BoolOf(doc, "accelerationLayer"),
   RecordTracePath |-> StringOf(doc, "recordTracePath"),
   Proxy |-> StringOf(doc, "proxy")]

\* The descriptors the three constructors write: lower lists of the base
\* layer, of a plain layer with digest and size and of a turboOCI layer,
\* with and without an upper.
NoLower ==
  [File |-> "", Digest |-> "", Size |-> 0, Dir |-> "", RepoBlobURL |-> "",
   TargetDigest |-> "", TargetFile |-> "", GzipIndex |-> ""]

BaseLower == [NoLower EXCEPT !.Dir = "/opt/overlaybd/baselayers"]

PlainLower ==
  [NoLower EXCEPT !.Digest = "sha256:aa", !.Size = 40960,
                  !.Dir = "/var/a&b/1"]

TurboLower ==
  [NoLower EXCEPT !.Dir = "/var/a&b/1", !.File = "/var/a/1/ext4.fs.meta",
                  !.TargetDigest = "sha256:bb",
                  !.GzipIndex = "/var/a/1/gzip.meta"]

LowerLists ==
  {<<>>, <<BaseLower>>, <<BaseLower, PlainLower>>, <<PlainLower, BaseLower>>,
   <<TurboLower>>}

Uppers ==
  {[Index |-> "", Data |-> ""],
   [Index |-> "/var/a/2/.data_index", Data |-> "/var/a/2/.data_file"]}

Descriptors ==
  {[ImageRef |-> r, RepoBlobURL |-> IF r = "" THEN "" ELSE "https://reg/v2/app/blobs",
    Lowers |-> ls, Upper |-> u, ResultFile |-> "/var/a&b/1/init-debug.log",
    AccelerationLayer |-> a, RecordTracePath |-> "", Proxy |-> ""] :
     r \in {"", "reg/app:v1"}, ls \in LowerLists, u \in Uppers, a \in BOOLEAN}

ZeroConfig == Unmarshal([k \in {} |-> ""])

\* A file: whether it is there, whether all of its data has been written,
\* and the data.
NoFile == [exists |-> FALSE, whole |-> FALSE, doc |-> [k \in {} |-> ""]]

\* The writer's position, the target and the temporary file, the
\* descriptor being written and the one of the last write that returned nil.
NoConf ==
  [pc |-> "idle", file |-> NoFile, tmp |-> NoFile, want |-> ZeroConfig,
   last |-> ZeroConfig]

\* ReadConfig(targetPath): ioutil.ReadFile, then json.Unmarshal, which fails
\* on a text that is cut short.
ReadConfig(f) ==
  IF ~f.exists THEN [err |-> "NotExist", config |-> ZeroConfig]
  ELSE IF ~f.whole THEN [err |-> "Unmarshal", config |-> ZeroConfig]
  ELSE [err |-> "", config |-> Unmarshal(f.doc)]

(***************************************************************************)
(* The constructors of the stack descriptor.                               *)
(***************************************************************************)
gzipIndexFile == "gzip.meta"

ext4FSMetaFile == "ext4.fs.meta"

configFile == "config.v1.json"

dataFile == ".data_file"

idxFile == ".data_index"

overlaybdBaseLayerDir == "/opt/overlaybd/baselayers"

\* The layer directories and filepath.Join(dir, name) for the names the
\* constructors put under them.
SnDirs == {"/var/sn/1", "/var/sn/2", "/var/sn/3"}

JoinTable ==
  {<<"/var/sn/1", "ext4.fs.meta", "/var/sn/1/ext4.fs.meta">>,
   <<"/var/sn/1", "gzip.meta", "/var/sn/1/gzip.meta">>,
   <<"/var/sn/1", ".data_index", "/var/sn/1/.data_index">>,
   <<"/var/sn/1", ".data_file", "/var/sn/1/.data_file">>,
   <<"/var/sn/1", "init-debug.log", "/var/sn/1/init-debug.log">>,
   <<"/var/sn/1", "config.v1.json", "/var/sn/1/config.v1.json">>,
   <<"/var/sn/2", "ext4.fs.meta", "/var/sn/2/ext4.fs.meta">>,
   <<"/var/sn/2", "gzip.meta", "/var/sn/2/gzip.meta">>,
   <<"/var/sn/2", ".data_index", "/var/sn/2/.data_index">>,
   <<"/var/sn/2", ".data_file", "/var/sn/2/.data_file">>,
   <<"/var/sn/2", "init-debug.log", "/var/sn/2/init-debug.log">>,
   <<"/var/sn/2", "config.v1.json", "/var/sn/2/config.v1.json">>,
   <<"/var/sn/3", "ext4.fs.meta", "/var/sn/3/ext4.fs.meta">>,
   <<"/var/sn/3", "gzip.meta", "/var/sn/3/gzip.meta">>,
   <<"/var/sn/3", ".data_index", "/var/sn/3/.data_index">>,
   <<"/var/sn/3", ".data_file", "/var/sn/3/.data_file">>,
   <<"/var/sn/3", "init-debug.log", "/var/sn/3/init-debug.log">>,
   <<"/var/sn/3", "config.v1.json", "/var/sn/3/config.v1.json">>}

FilepathJoin(dir, name) ==
  (CHOOSE t \in JoinTable : t[1] = dir /\ t[2] = name)[3]

OverlaybdInitDebuglogPath(dir) == FilepathJoin(dir, "init-debug.log")

\* The image references of the label cri.image-ref that reference.Parse
\* accepts, with host and repository, and one it refuses.
GoodRefs ==
  {[ref |-> "reg/app:v1", host |-> "reg", repo |-> "app",
    url |-> "https://reg/v2/app/blobs"],
   [ref |-> "hub/lib:v2", host |-> "hub", repo |-> "lib",
    url |-> "https://hub/v2/lib/blobs"]}

BadRef == "bad ref"

\* constructImageBlobURL(ref): https://<host>/v2/<repo>/blobs.
constructImageBlobURL(ref) ==
  IF \E g \in GoodRefs : g.ref = ref
    THEN [err |-> "", url |-> (CHOOSE g \in GoodRefs : g.ref = ref).url]
  ELSE [err |-> "Error", url |-> ""]

MediaTypeImageLayerGzip == "application/vnd.oci.image.layer.v1.tar+gzip"

MediaTypeDockerSchema2LayerGzip ==
  "application/vnd.docker.image.rootfs.diff.tar.gzip"

MediaTypeImageLayer == "application/vnd.oci.image.layer.v1.tar"

isGzipLayer(mediaType) ==
  mediaType = MediaTypeImageLayerGzip
    \/ mediaType = MediaTypeDockerSchema2LayerGzip

\* strconv.Atoi(blobSize) with its error dropped: 0 for a text that is no
\* number.
BlobSizes == {<<"4", "0", "9", "6", "0">>, <<"x">>}

Atoi(text) ==
  IF \A i \in DOMAIN text : \E d \in DOMAIN DigitChars : DigitChars[d] = text[i]
    THEN ParseUint(text)
  ELSE 0

\* A descriptor with nothing but its result file.
NewConfig(dir) ==
  [ZeroConfig EXCEPT !.ResultFile = OverlaybdInitDebuglogPath(dir)]

\* WriteConfig(config, OverlaybdConfPath(dir)) on the files of the layer
\* directories: a write that fails leaves the file as it was.
WriteConfigTo(files, dir, config, fault) ==
  IF fault = "writeConfig" THEN [err |-> "Error", files |-> files]
  ELSE [err |-> "",
        files |-> [files EXCEPT ![dir] =
                     [exists |-> TRUE, whole |-> TRUE, doc |-> Marshal(config)]]]

\* What a constructor returns before it has written anything.
Refuse(files, why) == [err |-> why, files |-> files]

\* The parent's descriptor as ReadConfig gives it; a parent directory that
\* is not a layer directory has no file.
ReadParent(files, parentDir) ==
  IF parentDir \in DOMAIN files THEN ReadConfig(files[parentDir])
  ELSE ReadConfig(NoFile)

\* ConstructTurboOCISpec(parent, labels, snDir, parentDir, ...).
ConstructTurboOCISpec(files, parent, labels, snDir, parentDir, fault) ==
  LET pc    == ReadParent(files, parentDir)
      url   == constructImageBlobURL(labels.ref)
      lower == [NoLower EXCEPT
                  !.Dir = snDir,
                  !.File = FilepathJoin(snDir, ext4FSMetaFile),
                  !.TargetDigest = labels.turboDigest,
                  !.GzipIndex = IF isGzipLayer(labels.mediaType)
                                  THEN FilepathJoin(snDir, gzipIndexFile)
                                ELSE ""]
      base  == IF parent # ""
                 THEN [NewConfig(snDir) EXCEPT
                         !.RepoBlobURL = pc.config.RepoBlobURL,
                         !.Lowers = pc.config.Lowers]
               ELSE [NewConfig(snDir) EXCEPT
                       !.ImageRef = labels.ref, !.RepoBlobURL = url.url]
  IN  IF parent # "" /\ pc.err # "" THEN Refuse(files, "Error")
      ELSE IF parent = "" /\ ~labels.hasRef THEN Refuse(files, "Error")
      ELSE IF parent = "" /\ url.err # "" THEN Refuse(files, "Error")
      ELSE WriteConfigTo(files, snDir,
             [base EXCEPT !.Lowers = Append(@, lower)], fault)

\* A plain constructor that starts every lower list anew.
ConstructOverlayBDSpecFresh(files, parent, labels, snDir, parentDir, blobDigest, blobSize, fault) ==
  LET layerConfig == [NoLower EXCEPT !.Digest = blobDigest,
                                     !.Size = Atoi(blobSize), !.Dir = snDir]
  IN  WriteConfigTo(files, snDir,
        [NewConfig(snDir) EXCEPT !.Lowers = <<layerConfig>>], fault)

\* ConstructOverlayBDSpec(parent, labels, snDir, parentDir, blobDigest,
\* blobSize): the label is asked for before the parent is looked at.
ConstructOverlayBDSpec(files, parent, labels, snDir, parentDir, blobDigest, blobSize, fault) ==
  LET pc  == ReadParent(files, parentDir)
      url == constructImageBlobURL(labels.ref)
      lowers == IF parent = ""
                  THEN <<[NoLower EXCEPT !.Dir = overlaybdBaseLayerDir]>>
                ELSE pc.config.Lowers
      layerConfig == [NoLower EXCEPT !.Digest = blobDigest,
                                     !.Size = Atoi(blobSize), !.Dir = snDir]
  IN  IF ~labels.hasRef THEN Refuse(files, "Error")
      ELSE IF url.err # "" THEN Refuse(files, "Error")
      ELSE IF parent # "" /\ pc.err # "" THEN Refuse(files, "Error")
      ELSE WriteConfigTo(files, snDir,
             [NewConfig(snDir) EXCEPT
                !.RepoBlobURL = IF parent # "" /\ url.url = ""
                                  THEN pc.config.RepoBlobURL ELSE url.url,
                !.ImageRef = labels.ref,
                !.Lowers = Append(lowers, layerConfig)], fault)

\* ConstructOverlayBDWritableSpec(dir, parent).
ConstructOverlayBDWritableSpec(files, dir, parentDir, fault) ==
  LET pc == ReadParent(files, parentDir)
  IN  IF pc.err # "" THEN Refuse(files, "Error")
      ELSE WriteConfigTo(files, dir,
             [NewConfig(dir) EXCEPT
                !.RepoBlobURL = pc.config.RepoBlobURL,
                !.Lowers = pc.config.Lowers,
                !.Upper = [Index |-> FilepathJoin(dir, idxFile),
                           Data |-> FilepathJoin(dir, dataFile)]], fault)

\* No constructor has run.
NoStack ==
  [files |-> [d \in SnDirs |-> NoFile], op |-> "none", dir |-> "",
   parentDir |-> "", labels |-> <<>>, err |-> ""]

(***************************************************************************)
(* The names the driver derives from a layer id.  An id is the decimal     *)
(* text of the store's number, a sequence of digit characters; a name is a *)
(* sequence of text pieces.                                                *)
(***************************************************************************)
obdLoopNaaPrefix == 199

obdHbaNum == 999999999

\* strings.Repeat(s, count): panics on a negative count.
Repeat(s, count) ==
  IF count < 0 THEN [panic |-> TRUE, text |-> <<>>]
  ELSE [panic |-> FALSE, text |-> [i \in 1..count |-> s]]

\* overlaybdLoopbackDeviceID(id): "naa.", the prefix, the padding, the id.
overlaybdLoopbackDeviceID(id) ==
  LET paddings == Repeat("0", 13 - Len(id))
  IN  IF paddings.panic THEN [panic |-> TRUE, name |-> <<>>]
      ELSE [panic |-> FALSE,
            name |-> <<"naa.">> \o FormatUint(obdLoopNaaPrefix)
                       \o paddings.text \o id]

overlaybdLoopbackDevicePath(id) ==
  <<"/sys/kernel/config/target/loopback/">> \o id

overlaybdLoopbackDeviceLunPath(id) ==
  <<"/sys/kernel/config/target/loopback/">> \o id \o <<"/tpgt_1/lun/lun_0">>

overlaybdTargetPath(id) ==
  <<"/sys/kernel/config/target/core/user_">> \o FormatUint(obdHbaNum)
    \o <<"/dev_">> \o id

\* Ids the store's sequence gives out: the first ones, the example of the
\* code's comment, the last of 13 digits, the first of 14 and the last a
\* 64-bit sequence reaches.
SnIDs ==
  {FormatUint(1), FormatUint(2), FormatUint(12), FormatUint(128),
   [i \in 1..13 |-> "9"],
   <<"1">> \o [i \in 1..13 |-> "0"],
   <<"1", "8", "4", "4", "6", "7", "4", "4", "0", "7", "3", "7", "0", "9",
     "5", "5", "1", "6", "1", "5">>}

\* The polling schedules: attempts of the write to enable, seconds and
\* attempts of the wait for the service's result file, attempts of the
\* block-device probe, of the wait for the service to exit, and of the
\* wait for the loop device to let go of a quota image.
EnableAttempts == 100

timeout == 20

retryTimes == (timeout * 1000) \div 20

maxAttachAttempts == 400

KillAttempts == 500

UmountAttempts == 30

\* The loop with one attempt too many (retry <= budget).
PollOnceMore(budget, readyAt) ==
  LET hits == {retry \in 0..budget : retry >= readyAt}
  IN IF hits = {} THEN [done |-> FALSE, attempts |-> budget + 1]
     ELSE [done |-> TRUE,
           attempts |-> (CHOOSE r \in hits : \A h \in hits : r <= h) + 1]

\* for retry := 0; retry < budget; retry++ { if ready { break }; sleep }
\* where the thing polled for is ready from attempt number readyAt on: the
\* loop leaves at the first attempt that finds it ready, or at the budget.
Poll(budget, readyAt) ==
  LET hits == {retry \in 0..(budget - 1) : retry >= readyAt}
  IN IF hits = {} THEN [done |-> FALSE, attempts |-> budget]
     ELSE [done |-> TRUE,
           attempts |-> (CHOOSE r \in hits : \A h \in hits : r <= h) + 1]

\* The step at which doOverlayBD fails when enable stops answering EAGAIN
\* at attempt env.enable, the result file reads success at env.ready and
\* the block device shows at env.device.
EnvFault(env) ==
  IF ~Poll(EnableAttempts, env.enable).done THEN "enableAgain"
  ELSE IF ~Poll(retryTimes, env.ready).done THEN "readyTimeout"
  ELSE IF ~Poll(maxAttachAttempts, env.device).done THEN "probe"
  ELSE "none"

\* The result file of the service as the attach reads it: missing before
\* the service creates it at attempt createdAt, empty until the service
\* writes its text at attempt writtenAt.
ReadFile(log, retry) ==
  IF retry < log.createdAt THEN [derr |-> TRUE, data |-> ""]
  ELSE IF retry < log.writtenAt THEN [derr |-> FALSE, data |-> ""]
  ELSE [derr |-> FALSE, data |-> log.text]

\* The wait of doOverlayBD for the result file: a read that fails sleeps
\* and goes on, the first read that succeeds decides, by whether the data
\* is the string success.
waitReady(budget, log) ==
  LET reads == {retry \in 0..(budget - 1) : ~ReadFile(log, retry).derr}
      first == CHOOSE r \in reads : \A h \in reads : r <= h
  IN  IF reads = {}
        THEN [fault |-> "readyTimeout", data |-> "", attempts |-> budget]
      ELSE IF ReadFile(log, first).data = "success"
        THEN [fault |-> "none", data |-> "success", attempts |-> first + 1]
      ELSE [fault |-> "readyBad", data |-> ReadFile(log, first).data,
            attempts |-> first + 1]

\* killProcess(id, SIGINT) on attachment a, the process being gone from
\* attempt exitAt on: nothing to do when no process is found.
killProcess(a, exitAt) ==
  IF ~a.proc THEN [err |-> "", att |-> a, attempts |-> 0]
  ELSE IF Poll(KillAttempts, exitAt).done
    THEN [err |-> "", att |-> KillService(a),
          attempts |-> Poll(KillAttempts, exitAt).attempts]
  ELSE [err |-> "Error", att |-> a, attempts |-> KillAttempts]

\* sparseFileQuota.umount(target), the loop device letting go of the image
\* from attempt releaseAt on: the wait is given up without an error.
umount(releaseAt, fault) ==
  IF fault = "quotaRemove"
    THEN [err |-> "Error", released |-> FALSE, attempts |-> 0]
  ELSE [err |-> "", released |-> Poll(UmountAttempts, releaseAt).done,
        attempts |-> Poll(UmountAttempts, releaseAt).attempts]

\* ConstructOverlayBDWritableSpec(dir, parent): reads the parent's
\* config.v1.json and writes the layer's own.
WritableSpecErr(ds, parentDir, fault) ==
  IF ~HasDir(ds, parentDir) THEN "Error"
  ELSE IF ds[parentDir].config = "none" THEN "Error"
  ELSE IF fault = "writeSpec" THEN "Error"
  ELSE ""

\* Overlaybd.ActiveMount(snDir, id, parentDir, parentPaths) with d the
\* contents of snDir and a the attachment of id.
ActiveMount(ds, d, a, id, parentDir, parentPaths, fault) ==
  LET localConverted ==
        \A i \in 1..Len(parentPaths) :
          HasDir(ds, parentPaths[i]) /\ ds[parentPaths[i]].tarMeta
      specErr == WritableSpecErr(ds, parentDir, fault)
      d1 == [d EXCEPT !.config = "writable"]
      r  == doOverlayBD(a, fault)
      fail(dd, aa) == [err |-> "Error", dir |-> dd, att |-> aa, mounts |-> NoMounts]
  IN  IF localConverted /\ fault = "merge" THEN fail(d, a)
      ELSE IF fault = "create" THEN fail(d, a)
      ELSE IF specErr # "" THEN fail(d, a)
      ELSE IF r.err # "" THEN fail(d1, r.att)
      ELSE IF fault = "writeDev" THEN fail(d1, r.att)
      ELSE [err |-> "", dir |-> [d1 EXCEPT !.device = TRUE], att |-> r.att,
            mounts |-> <<[type |-> "ext4", source |-> DevicePath(id),
                          options |-> <<Flag("ro")>>]>>]

\* Overlaybd.PrepareMount(keyDir, parents)
PrepareMount(keyDir, fault) ==
  IF fault = "statKey" THEN [err |-> "Error", mounts |-> NoMounts]
  ELSE [err |-> "",
        mounts |-> <<[type |-> "bind", source |-> keyDir,
                      options |-> <<Flag("rbind"), Flag("rw")>>]>>]

\* Overlaybd.GetMount(keyDir)
GetMount(ds, keyDir) ==
  IF HasDir(ds, keyDir) /\ ds[keyDir].device
    THEN <<[type |-> "ext4", source |-> DevicePath(keyDir.id),
            options |-> <<Flag("ro")>>]>>
  ELSE <<[type |-> "bind", source |-> keyDir,
          options |-> <<Flag("rw"), Flag("rbind")>>]>>

\* Overlaybd.Commit(keyDir): converts a deposited layer.tar.
DriverCommitErr(d, fault) == IF d.tar /\ fault = "convert" THEN "Error" ELSE ""

DriverCommit(d) == IF d.tar THEN [d EXCEPT !.tarMeta = TRUE] ELSE d

\* A PreProcess that tells the orchestrator to fetch whatever the labels.
PreProcessNeverSkips(ds, parentDir, parent, labels, fault) ==
  [err |-> "", skipFetch |-> FALSE,
   config |-> IF ~labels.blob THEN "none"
              ELSE IF labels.turbo THEN "turbo" ELSE "plain"]

\* Overlaybd.PreProcess(keyDir, parentDir, parent, labels): the descriptor
\* it writes ("none" when it writes none), whether the fetch is skipped,
\* and its error.
PreProcess(ds, parentDir, parent, labels, fault) ==
  LET parentOk == HasDir(ds, parentDir) /\ ds[parentDir].config # "none"
      fail == [err |-> "Error", config |-> "none", skipFetch |-> FALSE]
  IN  IF ~labels.blob
        THEN [err |-> "", config |-> "none", skipFetch |-> FALSE]
      ELSE IF labels.turbo
        THEN IF parent # "" /\ ~parentOk THEN fail
             ELSE IF parent = "" /\ ~labels.ref THEN fail
             ELSE IF fault = "writeConfig" THEN fail
             ELSE [err |-> "", config |-> "turbo", skipFetch |-> FALSE]
      ELSE IF ~labels.ref THEN fail
      ELSE IF parent # "" /\ ~parentOk THEN fail
      ELSE IF fault = "writeConfig" THEN fail
      ELSE [err |-> "", config |-> "plain", skipFetch |-> TRUE]

(***************************************************************************)
(* The orchestrator.  The outcome of a call is the record                  *)
(*   [rows, nextId, wlock, dirs, homes, att, res, mounts]                  *)
(* of the state it leaves and of what it returns: res is "ok", the kind of *)
(* the error returned ("Error" for an error of no kind), or "blocked" when *)
(* the call never returns; homes is the set of keys k whose directory      *)
(* <home>/.rwlayer/<k> the call has made and left behind.  An empty such   *)
(* directory changes no later call, so it is kept in no variable.          *)
(***************************************************************************)
Outcome(s, wl, ds, hs, at, res, ms) ==
  [rows |-> s.rows, nextId |-> s.nextId, wlock |-> wl, dirs |-> ds,
   homes |-> hs, att |-> at, res |-> res, mounts |-> ms]

\* A call that needs the writer while a read-write transaction is open
\* waits in TransactionContext and never returns.
Blocked == Outcome(Store, wlock, dirs, {}, att, "blocked", NoMounts)

\* The options Active puts on its overlay mount.
ActiveOptions(lowerDir, upperDir) ==
  <<Opt("lowerdir", lowerDir), Opt("upperdir", Join(upperDir, "upper/fs")),
    Opt("workdir", Join(upperDir, "upper/work"))>>
  \o (IF cfg.indexOff THEN <<Flag("index=off")>> ELSE <<>>)
  \o (IF cfg.userxattr THEN <<Flag("userxattr")>> ELSE <<>>)

\* The options Mounts puts on the overlay mount it rebuilds.
MountsOptions(lowerDir, upperDir) ==
  <<Opt("lowerdir", lowerDir), Opt("upperdir", Join(upperDir, "upper/fs")),
    Opt("workdir", Join(upperDir, "upper/work"))>>
  \o (IF cfg.indexOff THEN <<Flag("index=off")>> ELSE <<>>)
  \o (IF cfg.userxattr THEN <<Flag("userxattr")>> ELSE <<>>)

OverlayMount(options) ==
  <<[type |-> "overlay", source |-> OverlaySource, options |-> options]>>

\* prepareLower(kind, key, parent, isActive, opts) in the transaction
\* value s (inTx: whether the context carries a transaction at all).
prepareLower(s, inTx, kind, key, parent, isActive, labels, fault) ==
  LET homeOk == getActivePathOk(labels)
      \* a home directory found for the key is removed before it is made
      ds0    == IF homeOk THEN RemoveAllDirs(dirs, HomeDirs(dirs, key)) ELSE dirs
      hs0    == IF homeOk THEN {key} ELSE {}
      cErr   == CreateSnapshotErr(s, inTx, key, parent)
      s1     == CreateSnapshot(s, kind, key, parent, labels)
      id     == s.nextId
      path   == fsPath(labels, id, key)
      parentDir ==
        IF parent = "" THEN NoPath
        ELSE fsPath(s1.rows[parent].labels, s1.rows[parent].id, parent)
      renameErr ==
        fault = "rename" \/ (HasDir(ds0, path) /\ ~IsEmptyDir(ds0[path]))
      ds1    == PutDir(ds0, path, EmptyDir)
      am     == ActiveMount(ds1, EmptyDir, att[id], id, parentDir,
                            idToDirectory(ParentIDs(s1, parent)), fault)
      pm     == PrepareMount(path, fault)
      fail(err, ds, hs, at) ==
        [err |-> err, store |-> s, dirs |-> ds, homes |-> hs, att |-> at,
         id |-> 0, path |-> NoPath, parentDir |-> NoPath, mounts |-> NoMounts]
  IN  IF fault = "opt" THEN fail("Error", dirs, {}, att)
      ELSE IF homeOk /\ fault = "mkHome" THEN fail("Error", ds0, {}, att)
      ELSE IF fault = "mkTemp" THEN fail("Error", ds0, hs0, att)
      ELSE IF cErr # "" THEN fail(cErr, ds0, hs0, att)
      ELSE IF renameErr THEN fail("Error", RemoveAll(ds0, path), hs0, att)
      ELSE IF isActive /\ am.err # ""
        THEN fail(am.err, RemoveAll(PutDir(ds1, path, am.dir), path), hs0,
                  [att EXCEPT ![id] = am.att])
      ELSE IF ~isActive /\ pm.err # ""
        THEN fail(pm.err, RemoveAll(ds1, path), hs0, att)
      ELSE [err |-> "", store |-> s1,
            dirs |-> IF isActive THEN PutDir(ds1, path, am.dir) ELSE ds1,
            homes |-> hs0,
            att |-> IF isActive THEN [att EXCEPT ![id] = am.att] ELSE att,
            id |-> id, path |-> path, parentDir |-> parentDir,
            mounts |-> IF isActive THEN am.mounts ELSE pm.mounts]

\* Prepare(key, parent, opts)
Prepare(key, parent, labels, fault) ==
  LET pl == prepareLower(Store, TRUE, "Active", key, parent, FALSE, labels, fault)
      pp == PreProcess(pl.dirs, pl.parentDir, parent, labels, fault)
      ds == PutDir(pl.dirs, pl.path, [pl.dirs[pl.path] EXCEPT !.config = pp.config])
  IN  IF wlock THEN Blocked
      ELSE IF fault = "opt"
        THEN Outcome(Store, TRUE, dirs, {}, att, "Error", NoMounts)
      ELSE IF pl.err # ""
        THEN Outcome(Store, TRUE, pl.dirs, pl.homes, pl.att, pl.err, NoMounts)
      ELSE IF pp.err # ""
        THEN Outcome(Store, FALSE, pl.dirs, pl.homes, pl.att, pp.err, NoMounts)
      ELSE IF pp.skipFetch
        THEN \* o.Commit begins a second read-write transaction
             Outcome(Store, TRUE, ds, pl.homes, pl.att, "blocked", NoMounts)
      ELSE IF fault = "txcommit"
        THEN Outcome(Store, FALSE, ds, pl.homes, pl.att, "Error", NoMounts)
      ELSE Outcome(pl.store, FALSE, ds, pl.homes, pl.att, "ok", pl.mounts)

\* Active(key, parent, opts)
Active(key, parent, labels0, fault) ==
  LET labels == [labels0 EXCEPT !.rw = TRUE]
      pl   == prepareLower(Store, TRUE, "Active", key, parent, TRUE, labels, fault)
      id   == pl.id
      upperDir == upperPath(labels, id, key)
      lowerDir == lowerPath(labels, id, key)
      \* prepareUpperDir logs what getActiveQuota and Setup fail with
      quotaOn  == /\ cfg.quotaDriver /\ getActiveQuota(labels).size > 0
                  /\ fault # "quotaSetup"
      d0   == pl.dirs[pl.path]
      d1   == [d0 EXCEPT !.upper = TRUE, !.quotaMounted = quotaOn]
      d2   == [d1 EXCEPT !.lower = TRUE]
      d3   == [d2 EXCEPT !.lowerMounted = TRUE]
      cleaned == [pl.att EXCEPT ![id] = DriverCleanup(pl.att[id], fault).att]
      at(d) == PutDir(pl.dirs, pl.path, d)
  IN  IF wlock THEN Blocked
      ELSE IF parent = "" \/ fault = "opt"
        THEN Outcome(Store, TRUE, dirs, {}, att, "Error", NoMounts)
      ELSE IF pl.err # ""
        THEN Outcome(Store, FALSE, pl.dirs, pl.homes, pl.att, pl.err, NoMounts)
      ELSE IF fault = "upper"
        THEN Outcome(Store, FALSE, pl.dirs, pl.homes, cleaned, "Error", NoMounts)
      ELSE IF fault = "mkLower"
        THEN Outcome(Store, FALSE, at(d1), pl.homes, pl.att, "Error", NoMounts)
      ELSE IF fault = "mountLower"
        THEN Outcome(Store, FALSE, at(d2), pl.homes, cleaned, "Error", NoMounts)
      ELSE IF fault = "txcommit"
        THEN Outcome(Store, FALSE, at(d3), pl.homes, pl.att, "Error", NoMounts)
      ELSE Outcome(pl.store, FALSE, at(d3), pl.homes, pl.att, "ok",
                   OverlayMount(ActiveOptions(lowerDir, upperDir)))

\* A View whose prepareLower finds a transaction in its context, though
\* View has begun none.
ViewInTransaction(key, parent, labels0, fault) ==
  LET labels == [labels0 EXCEPT !.rw = TRUE]
      pl == prepareLower(Store, TRUE, "View", key, parent, TRUE, labels, fault)
  IN  Outcome(Store, wlock, pl.dirs, pl.homes, pl.att,
              IF pl.err # "" THEN pl.err ELSE "ok", pl.mounts)

\* View(key, parent, opts): prepareLower with no transaction in the context.
View(key, parent, labels0, fault) ==
  LET labels == [labels0 EXCEPT !.rw = TRUE]
      pl == prepareLower(Store, FALSE, "View", key, parent, TRUE, labels, fault)
  IN  IF pl.err # ""
        THEN Outcome(Store, wlock, pl.dirs, pl.homes, pl.att, pl.err, NoMounts)
      ELSE Outcome(Store, wlock, pl.dirs, pl.homes, pl.att, "ok", pl.mounts)

\* A Commit that hands the store its two names in the wrong order.
commitActiveSwapped(s, name, key) == CommitActive(s, name, key)

\* The store call of Commit: the Active layer key becomes the Committed
\* layer name.
commitActive(s, name, key) == CommitActive(s, key, name)

\* Commit(name, key, opts)
Commit(name, key, fault) ==
  LET info == GetInfo(Store, key)
      dir  == fsPath(info.labels, info.id, key)
      cErr == CommitActiveErr(Store, key, name)
      ds   == PutDir(dirs, dir, DriverCommit(dirs[dir]))
  IN  IF wlock THEN Blocked
      ELSE IF GetInfoErr(Store, key) # ""
        THEN Outcome(Store, FALSE, dirs, {}, att, GetInfoErr(Store, key), NoMounts)
      ELSE IF fault = "diskUsage" \/ ~HasDir(dirs, dir)
        THEN Outcome(Store, FALSE, dirs, {}, att, "Error", NoMounts)
      ELSE IF DriverCommitErr(dirs[dir], fault) # ""
        THEN \* the error is not the one the deferred rollback looks at
             Outcome(Store, TRUE, dirs, {}, att, "Error", NoMounts)
      ELSE IF cErr # ""
        THEN Outcome(Store, FALSE, ds, {}, att, cErr, NoMounts)
      ELSE IF fault = "txcommit"
        THEN Outcome(Store, FALSE, ds, {}, att, "Error", NoMounts)
      ELSE Outcome(commitActive(Store, name, key), FALSE, ds, {}, att,
                   "ok", NoMounts)

\* A sweep that lists <root>/snapshots alone.
getCleanupDirectoriesRootOnly(s, ds) ==
  {p \in DOMAIN ds : p.base = "root" /\ p.id \notin IDMap(s)}

\* getCleanupDirectories: the directories below <root>/snapshots and
\* <defaultUpperDir>/snapshots whose name is no id of the store value s.
getCleanupDirectories(s, ds) ==
  {p \in DOMAIN ds :
     p.base \in {"root", cfg.defaultUpperDir} /\ p.id \notin IDMap(s)}

\* A Remove that goes on when the store has refused.
RemoveFromStoreAnyway(s, key) == [err |-> "", store |-> StoreRemove(s, key)]

\* What Remove asks of the store, and what it makes of the answer.
RemoveFromStore(s, key) ==
  [err |-> StoreRemoveErr(s, key),
   store |-> IF StoreRemoveErr(s, key) = "" THEN StoreRemove(s, key) ELSE s]

\* Remove(key) from the layer's info on, the key naming a layer.
RemoveLayer(key, fault) ==
  LET info == GetInfo(Store, key)
      id   == info.id
      dir  == fsPath(info.labels, id, key)
      has  == HasDir(dirs, dir)
      \* unmount the lower directory when it is there
      unmountErr == has /\ dirs[dir].lower /\ fault = "unmount"
      ds1  == IF has /\ dirs[dir].lower
                THEN PutDir(dirs, dir, [dirs[dir] EXCEPT !.lowerMounted = FALSE])
                ELSE dirs
      dc   == DriverCleanup(att[id], fault)
      at1  == [att EXCEPT ![id] = dc.att]
      \* quota removal
      quota == cfg.quotaDriver /\ getActiveQuota(info.labels).size > 0
      quotaErr == quota /\ fault = "quotaRemove"
      ds2  == IF quota /\ has
                THEN PutDir(ds1, dir, [ds1[dir] EXCEPT !.quotaMounted = FALSE])
                ELSE ds1
      \* removeActivePath
      home == getActivePathOk(info.labels)
      ds3  == IF home THEN RemoveAllDirs(ds2, HomeDirs(ds2, key)) ELSE ds2
      rm   == RemoveFromStore(Store, key)
      removals == getCleanupDirectories(rm.store, ds3)
      ds4  == IF cfg.asyncRemove THEN ds3 ELSE RemoveAllDirs(ds3, removals)
  IN  IF unmountErr
        THEN Outcome(Store, FALSE, dirs, {}, att, "Error", NoMounts)
      ELSE IF dc.err # ""
        THEN Outcome(Store, FALSE, ds1, {}, at1, "Error", NoMounts)
      ELSE IF quotaErr
        THEN Outcome(Store, FALSE, ds1, {}, at1, "Error", NoMounts)
      ELSE IF home /\ fault = "rmHome"
        THEN Outcome(Store, FALSE, ds2, {}, at1, "Error", NoMounts)
      ELSE IF rm.err # ""
        THEN Outcome(Store, FALSE, ds3, {}, at1, rm.err, NoMounts)
      ELSE IF ~cfg.asyncRemove /\ fault = "sweepList"
        THEN Outcome(Store, FALSE, ds3, {}, at1, "Error", NoMounts)
      ELSE IF fault = "txcommit"
        THEN Outcome(Store, FALSE, ds3, {}, at1, "Error", NoMounts)
      ELSE Outcome(rm.store, FALSE, ds4, {}, at1, "ok", NoMounts)

\* A Remove that returns from an unknown key without ending its transaction.
RemoveNoRollback(key, fault) ==
  IF wlock THEN Blocked
  ELSE IF GetInfoErr(Store, key) # ""
    THEN Outcome(Store, TRUE, dirs, {}, att, "ok", NoMounts)
  ELSE RemoveLayer(key, fault)

\* Remove(key): a key the store does not know is rolled back and answered
\* with success.
Remove(key, fault) ==
  IF wlock THEN Blocked
  ELSE IF GetInfoErr(Store, key) # ""
    THEN Outcome(Store, FALSE, dirs, {}, att, "ok", NoMounts)
  ELSE RemoveLayer(key, fault)

\* A Cleanup that sweeps every directory it finds, live or not.
CleanupEverything(fault) ==
  IF wlock THEN Blocked
  ELSE Outcome(Store, FALSE,
               RemoveAllDirs(dirs, {p \in DOMAIN dirs :
                                      p.base \in {"root", cfg.defaultUpperDir}}),
               {}, att, "ok", NoMounts)

\* Cleanup()
Cleanup(fault) ==
  IF wlock THEN Blocked
  ELSE IF fault = "sweepList"
    THEN Outcome(Store, FALSE, dirs, {}, att, "Error", NoMounts)
  ELSE Outcome(Store, FALSE,
               RemoveAllDirs(dirs, getCleanupDirectories(Store, dirs)),
               {}, att, "ok", NoMounts)

\* Stat(key) reading the store value s: the kind it reports, "NotFound"
\* when it fails.
Stat(s, key) ==
  IF GetInfoErr(s, key) # "" THEN "NotFound" ELSE GetInfo(s, key).kind

\* Mounts(key)
Mounts(key) ==
  LET info == GetInfo(Store, key)
      snapshotDir == fsPath(info.labels, info.id, key)
      upperDir == upperPath(info.labels, info.id, key)
      lowerDir == lowerPath(info.labels, info.id, key)
      d == Join(upperDir, "")
  IN  IF GetInfoErr(Store, key) # "" THEN [err |-> "NotFound", mounts |-> NoMounts]
      ELSE IF HasDir(dirs, d) /\ dirs[d].upper
        THEN [err |-> "", mounts |-> OverlayMount(MountsOptions(lowerDir, upperDir))]
      ELSE [err |-> "", mounts |-> GetMount(dirs, snapshotDir)]

\* Update(info, fieldpaths) of the layer key with nothing to change: the
\* store's refusal is rolled back, an error of the second look at the
\* layer, which only the upperdir label asks for, is returned as it is,
\* and so is an error of the commit, which ends the transaction itself.
Update(key, fault) ==
  IF wlock THEN Blocked
  ELSE IF GetInfoErr(Store, key) # ""
    THEN Outcome(Store, FALSE, dirs, {}, att, "NotFound", NoMounts)
  ELSE IF fault = "updateInfo"
    THEN Outcome(Store, FALSE, dirs, {}, att, "Error", NoMounts)
  ELSE IF cfg.upperdirLabel /\ fault = "getInfo"
    THEN Outcome(Store, TRUE, dirs, {}, att, "Error", NoMounts)
  ELSE IF fault = "txcommit"
    THEN Outcome(Store, FALSE, dirs, {}, att, "Error", NoMounts)
  ELSE Outcome(Store, FALSE, dirs, {}, att, "ok", NoMounts)

\* The read-only transaction of Mounts(key): whether the call has ended
\* it when it returns.  The error of GetInfo is returned before the
\* rollback, the error of GetSnapshot after it.
MountsTx(key, fault) ==
  IF GetInfoErr(Store, key) # "" \/ fault = "getInfo"
    THEN [err |-> "NotFound", ended |-> FALSE]
  ELSE IF fault = "getSnapshot" THEN [err |-> "Error", ended |-> TRUE]
  ELSE [err |-> Mounts(key).err, ended |-> TRUE]

\* The read-only transactions of Stat and Walk, rolled back by a deferred
\* call, and of Usage, rolled back as soon as GetInfo has answered.
StatTx(key, fault) ==
  IF GetInfoErr(Store, key) # "" \/ fault = "getInfo"
    THEN [err |-> "NotFound", ended |-> TRUE]
  ELSE [err |-> "", ended |-> TRUE]

UsageTx(key, fault) ==
  IF GetInfoErr(Store, key) # "" \/ fault = "getInfo"
    THEN [err |-> "NotFound", ended |-> TRUE]
  ELSE IF GetInfo(Store, key).kind = "Active" /\ fault = "diskUsage"
    THEN [err |-> "Error", ended |-> TRUE]
  ELSE [err |-> "", ended |-> TRUE]

WalkTx(fault) ==
  IF fault = "walk" THEN [err |-> "Error", ended |-> TRUE]
  ELSE [err |-> "", ended |-> TRUE]

\* ApplyWithPlainWrite(root = the directory Prepare's bind mount names):
\* the caller deposits layer.tar in the layer directory.
ApplyWithPlainWrite(ds, dir) == PutDir(ds, dir, [ds[dir] EXCEPT !.tar = TRUE])

(***************************************************************************)
(* The steps of each operation at which the environment can fail.          *)
(***************************************************************************)
LowerFaults == {"opt", "mkHome", "mkTemp", "rename"}

PrepareFaults == LowerFaults \cup {"statKey", "writeConfig", "txcommit"}

\* The steps of Active after the driver's attach has succeeded.
AfterAttachFaults == {"upper", "mkLower", "mountLower", "txcommit"}

ActiveFaults ==
  LowerFaults \cup {"merge", "create", "writeSpec", "writeDev", "quotaSetup"}
  \cup AttachFaults \cup AfterAttachFaults

CommitFaults == {"diskUsage", "convert", "txcommit"}

RemoveFaults ==
  {"unmount", "kill", "quotaRemove", "rmHome", "sweepList", "txcommit"}

(***************************************************************************)
(* Actions: one per public operation, in an environment that does not      *)
(* fail.  What a call does when a step fails is the value of its operator  *)
(* at that fault, in the state the call is made in.                        *)
(***************************************************************************)
\* Configurations NewSnapshotter is run with: each option both ways.
Configs ==
  {[asyncRemove |-> FALSE, defaultUpperDir |-> "root", indexOff |-> FALSE,
    userxattr |-> FALSE, quotaDriver |-> FALSE, upperdirLabel |-> FALSE],
   [asyncRemove |-> TRUE, defaultUpperDir |-> "upper", indexOff |-> TRUE,
    userxattr |-> TRUE, quotaDriver |-> TRUE, upperdirLabel |-> TRUE]}

(***************************************************************************)
(* Whiteout translation of archive entries.  A name is a sequence of      *)
(* characters, a path the sequence of the names below the layer's root.   *)
(***************************************************************************)
whiteoutPrefix == <<".", "w", "h", ".">>

whiteoutMetaPrefix == whiteoutPrefix \o whiteoutPrefix

whiteoutOpaqueDir == whiteoutMetaPrefix \o <<".", "o", "p", "q">>

Foo == <<"f", "o", "o">>

\* Base names of the entries of an archive.
EntryNames ==
  {Foo, whiteoutPrefix \o Foo, whiteoutOpaqueDir, whiteoutPrefix,
   whiteoutPrefix \o <<".", ".">>, <<".", "w", "h">> \o Foo,
   whiteoutOpaqueDir \o <<"x">>, Foo \o whiteoutPrefix}

\* tar.Header: the fields the translation and the extraction read.
Headers ==
  {[Typeflag |-> "dir", Uid |-> 0, Gid |-> 0],
   [Typeflag |-> "reg", Uid |-> 1000, Gid |-> 1000],
   [Typeflag |-> "reg", Uid |-> 1000, Gid |-> 0]}

\* filepath.Base and filepath.Dir of a path with at least one name.
Base(path) == path[Len(path)]

Dir(path) == SubSeq(path, 1, Len(path) - 1)

\* strings.HasPrefix
HasPrefix(s, prefix) ==
  Len(s) >= Len(prefix) /\ SubSeq(s, 1, Len(prefix)) = prefix

\* filepath.Join(dir, name) for a name without separator: the joined path
\* is cleaned, so an empty name or "." is dir and ".." is the directory
\* above it (the root is above itself).
JoinName(dir, name) ==
  IF name = <<>> \/ name = <<".">> THEN dir
  ELSE IF name = <<".", ".">>
    THEN IF dir = <<>> THEN dir ELSE Dir(dir)
  ELSE Append(dir, name)

\* The root directory of a layer before its archive is applied.
Node(kind, uid, gid) ==
  [kind |-> kind, uid |-> uid, gid |-> gid, rdev |-> 0, opaque |-> FALSE]

EmptyTree == (<<>> :> Node("dir", 0, 0))

IsDirectory(fs, p) == p \in DOMAIN fs /\ fs[p].kind = "dir"

PutNode(fs, p, n) == [q \in DOMAIN fs \cup {p} |-> IF q = p THEN n ELSE fs[q]]

\* unix.Setxattr(dir, "trusted.overlay.opaque", "y", 0)
Setxattr(fs, dir, fault) ==
  IF dir \notin DOMAIN fs THEN [err |-> "ENOENT", fs |-> fs]
  ELSE IF fault = "setxattr" THEN [err |-> "ENOTSUP", fs |-> fs]
  ELSE [err |-> "", fs |-> [fs EXCEPT ![dir].opaque = TRUE]]

\* unix.Mknod(p, unix.S_IFCHR, 0): a character device 0/0 of the calling
\* process (root).
Mknod(fs, p, fault) ==
  IF fault = "mknod" THEN [err |-> "EPERM", fs |-> fs]
  ELSE IF p \in DOMAIN fs THEN [err |-> "EEXIST", fs |-> fs]
  ELSE IF ~IsDirectory(fs, Dir(p)) THEN [err |-> "ENOENT", fs |-> fs]
  ELSE [err |-> "", fs |-> PutNode(fs, p, Node("chr", 0, 0))]

\* os.Chown(p, uid, gid)
Chown(fs, p, uid, gid, fault) ==
  IF fault = "chown" \/ p \notin DOMAIN fs THEN [err |-> "EPERM", fs |-> fs]
  ELSE [err |-> "", fs |-> [fs EXCEPT ![p].uid = uid, ![p].gid = gid]]

WhiteoutFaults == {"none", "setxattr", "mknod", "chown"}

\* The translation with the whiteout prefix looked at before the opaque
\* marker.
OverlayConvertWhiteoutPrefixFirst(fs, hdr, path, fault) ==
  LET base == Base(path)
      dir  == Dir(path)
      originalPath == JoinName(dir, SubSeq(base, Len(whiteoutPrefix) + 1, Len(base)))
      made == Mknod(fs, originalPath, fault)
      own  == Chown(made.fs, originalPath, hdr.Uid, hdr.Gid, fault)
      xat  == Setxattr(fs, dir, fault)
  IN  IF HasPrefix(base, whiteoutPrefix)
        THEN IF made.err # ""
               THEN [keep |-> FALSE, err |-> made.err, fs |-> made.fs]
             ELSE [keep |-> FALSE, err |-> own.err, fs |-> own.fs]
      ELSE IF base = whiteoutOpaqueDir
        THEN [keep |-> FALSE, err |-> xat.err, fs |-> xat.fs]
      ELSE [keep |-> TRUE, err |-> "", fs |-> fs]

\* OverlayConvertWhiteout(hdr, path): whether the entry is to be written,
\* the error, and the tree the call leaves.
OverlayConvertWhiteout(fs, hdr, path, fault) ==
  LET base == Base(path)
      dir  == Dir(path)
      originalPath == JoinName(dir, SubSeq(base, Len(whiteoutPrefix) + 1, Len(base)))
      made == Mknod(fs, originalPath, fault)
      own  == Chown(made.fs, originalPath, hdr.Uid, hdr.Gid, fault)
      xat  == Setxattr(fs, dir, fault)
  IN  IF base = whiteoutOpaqueDir
        THEN [keep |-> FALSE, err |-> xat.err, fs |-> xat.fs]
      ELSE IF HasPrefix(base, whiteoutPrefix)
        THEN IF made.err # ""
               THEN [keep |-> FALSE, err |-> made.err, fs |-> made.fs]
             ELSE [keep |-> FALSE, err |-> own.err, fs |-> own.fs]
      ELSE [keep |-> TRUE, err |-> "", fs |-> fs]

\* The extraction writes an entry the translation keeps: a node of the
\* header's type and owner at the entry's path.
WriteEntry(fs, hdr, path) ==
  PutNode(fs, path, Node(hdr.Typeflag, hdr.Uid, hdr.Gid))

\* The entries one archive may hold.
MaxEntries == 3

NoEntry == [path |-> <<>>, hdr |-> [Typeflag |-> "dir", Uid |-> 0, Gid |-> 0],
            keep |-> TRUE, err |-> ""]

NoArch == [fs |-> EmptyTree, before |-> EmptyTree, last |-> NoEntry, count |-> 0]

\* The paths an entry may have in tree fs: a name in a directory of fs.
EntryPaths(fs) ==
  {Append(d, n) : d \in {p \in DOMAIN fs : fs[p].kind = "dir"}, n \in EntryNames}

(***************************************************************************)
(* The image collector.  A reference is a sequence of its parts, a time a *)
(* number of ticks, a size a number of KiB.                               *)
(***************************************************************************)
imageID(id) == <<"sha256:", id>>

imageTag(id) == <<id, ":v1.0">>

imageDigest(id) == <<id, "@sha256:xyz">>

makeImage(id, size) ==
  [ID |-> imageID(id), RepoTags |-> {imageTag(id)},
   RepoDigests |-> {imageDigest(id)}, SizeBytes |-> size]

size1k == 1

size8k == size1k * 8

size128k == size1k * 128

size1M == size1k * 1024

\* The images the runtime may hold.
Catalog ==
  {makeImage("pause", size1k), makeImage("abc", size8k),
   makeImage("hijk", size128k)}

\* time.Time{} and the last tick of the clock.
ZeroTime == 0

MaxTime == 4

\* regexp.MatchString for an alternation of literals: some alternative
\* occurs in the text.  No alternative stands for no expression at all.
MatchString(re, text) ==
  \E alt \in re : \E i \in 1..(Len(text) - Len(alt) + 1) :
    SubSeq(text, i, i + Len(alt) - 1) = alt

\* GcPolicy
Policy(minAge, whitelist, re) ==
  [HighThresholdPercent |-> 100, LowThresholdPercent |-> 1,
   MinAge |-> minAge, Whitelist |-> whitelist, WhitelistGoRegex |-> re]

Policies ==
  {Policy(2, {imageTag("pause")}, {}),
   Policy(1, {imageDigest("pause")}, {<<"abc">>}),
   Policy(0, {imageTag("pause")}, {}),
   Policy(1, {}, {<<"abc">>})}

\* validateGCPolicy(policy): whether the policy is refused.
validateGCPolicy(policy) ==
  \/ policy.HighThresholdPercent <= 0 \/ policy.HighThresholdPercent > 100
  \/ policy.LowThresholdPercent <= 0 \/ policy.LowThresholdPercent > 100
  \/ policy.LowThresholdPercent >= policy.HighThresholdPercent
  \/ policy.MinAge = 0
  \/ policy.Whitelist = {}

\* The passes of pruneImages one collector makes.
MaxPasses == 3

NoPass ==
  [gctime |-> ZeroTime, totalSize |-> 0, removed |-> {}, failed |-> {},
   freed |-> 0]

\* A uint64 is four limbs of 16 bits, the least significant first.
Limb == 65536

U64(l3, l2, l1, l0) == <<l0, l1, l2, l3>>

Zero64 == U64(0, 0, 0, 0)

\* x * k for a uint64 x and 0 <= k <= 100, in full: five limbs.
MulSmall(x, k) ==
  LET p1 == x[1] * k
      p2 == x[2] * k + p1 \div Limb
      p3 == x[3] * k + p2 \div Limb
      p4 == x[4] * k + p3 \div Limb
  IN  <<p1 % Limb, p2 % Limb, p3 % Limb, p4 % Limb, p4 \div Limb>>

\* The low 64 bits of a product: what uint64 multiplication keeps.
Wrap64(y) == SubSeq(y, 1, 4)

\* A uint64 as five limbs.
Ext(x) == Append(x, 0)

\* a <= b for two numbers of as many limbs.
Leq(a, b) ==
  \/ a = b
  \/ \E i \in DOMAIN a :
       a[i] < b[i] /\ \A j \in DOMAIN a : j > i => a[j] = b[j]

\* y / d for five limbs y and 1 <= d <= 100.
DivSmall(y, d) ==
  LET c5 == y[5]
      c4 == (c5 % d) * Limb + y[4]
      c3 == (c4 % d) * Limb + y[3]
      c2 == (c3 % d) * Limb + y[2]
      c1 == (c2 % d) * Limb + y[1]
  IN  <<c1 \div d, c2 \div d, c3 \div d, c4 \div d, c5 \div d>>

\* a - b in uint64: the difference modulo 2^64.
Sub64(a, b) ==
  LET d1 == a[1] - b[1]
      b1 == IF d1 < 0 THEN 1 ELSE 0
      d2 == a[2] - b[2] - b1
      b2 == IF d2 < 0 THEN 1 ELSE 0
      d3 == a[3] - b[3] - b2
      b3 == IF d3 < 0 THEN 1 ELSE 0
      d4 == a[4] - b[4] - b3
  IN  <<d1 % Limb, d2 % Limb, d3 % Limb, d4 % Limb>>

\* x / c for five limbs x and a uint64 c > 0, when the quotient is at most
\* 100.  It is, for x = Wrap64(a * 100) with a <= c: either the product
\* has not wrapped and is at most c * 100, or a * 100 >= 2^64, so that
\* c * 100 >= 2^64 > x.
DivPercent(x, c) ==
  CHOOSE q \in 0..100 :
    /\ Leq(MulSmall(c, q), x)
    /\ q = 100 \/ ~Leq(MulSmall(c, q + 1), x)

\* fsStats as statfs reports it, and what calculateFreeSizes returns.
NoStats == [availableBytes |-> Zero64, capacityBytes |-> Zero64]

NoNeed == [size |-> Zero64, err |-> ""]

\* No collector has been constructed; the runtime holds nothing.
NoGC ==
  [handler |-> "none", policy |-> Policy(0, {}, {}), images |-> <<>>,
   listed |-> {}, containers |-> {}, clock |-> 1, passes |-> 0,
   last |-> NoPass, fs |-> NoStats, need |-> NoNeed]

\* The image id a reference of the whitelist names among the listed
\* images (tagDigestToID), as a set: empty when no listed image has it.
tagDigestToID(listed, ref) ==
  {img.ID : img \in {i \in listed : ref \in i.RepoTags \cup i.RepoDigests}}

\* The ids detectImages holds used before it looks at the whitelist: the
\* images of the listed containers and those with a tag the expression
\* matches.
usedInLoop(g) ==
  g.containers \cup
  {img.ID : img \in {i \in g.listed :
     \E tag \in i.RepoTags : MatchString(g.policy.WhitelistGoRegex, tag)}}

\* The detection that takes no account of the listed containers.
detectImagesNoContainers(g, detected, now) ==
  LET inLoop == usedInLoop([g EXCEPT !.containers = {}])
      used   == inLoop \cup
                UNION {tagDigestToID(g.listed, ref) : ref \in g.policy.Whitelist}
      first(img) == [detected |-> detected, lastUsed |-> ZeroTime,
                     sizeBytes |-> img.SizeBytes]
      rec(img) == IF img.ID \in DOMAIN g.images
                    THEN g.images[img.ID] ELSE first(img)
      imageOf(id) == CHOOSE img \in g.listed : img.ID = id
  IN  [used   |-> used,
       images |-> [id \in {img.ID : img \in g.listed} |->
                     [rec(imageOf(id)) EXCEPT
                        !.lastUsed = IF id \in inLoop THEN now ELSE @,
                        !.sizeBytes = imageOf(id).SizeBytes]]]

\* detectImages(ctx, detected): the used image ids and handler.images as
\* the call leaves it; now is the time it reads after the two listings.
detectImages(g, detected, now) ==
  LET inLoop == usedInLoop(g)
      used   == inLoop \cup
                UNION {tagDigestToID(g.listed, ref) : ref \in g.policy.Whitelist}
      first(img) == [detected |-> detected, lastUsed |-> ZeroTime,
                     sizeBytes |-> img.SizeBytes]
      rec(img) == IF img.ID \in DOMAIN g.images
                    THEN g.images[img.ID] ELSE first(img)
      imageOf(id) == CHOOSE img \in g.listed : img.ID = id
  IN  [used   |-> used,
       images |-> [id \in {img.ID : img \in g.listed} |->
                     [rec(imageOf(id)) EXCEPT
                        !.lastUsed = IF id \in inLoop THEN now ELSE @,
                        !.sizeBytes = imageOf(id).SizeBytes]]]

\* The order with the image used last, then detected last, first.
LessNewestFirst(a, b) ==
  IF a.lastUsed = b.lastUsed THEN a.detected > b.detected
  ELSE a.lastUsed > b.lastUsed

\* byLastUsedAndDetected.Less
Less(a, b) ==
  IF a.lastUsed = b.lastUsed THEN a.detected < b.detected
  ELSE a.lastUsed < b.lastUsed

\* The orders sort.Sort may leave the records of ids in.
SortedOrders(images, ids) ==
  {ord \in [1..Cardinality(ids) -> ids] :
     /\ \A i, j \in 1..Cardinality(ids) : i # j => ord[i] # ord[j]
     /\ \A i, j \in 1..Cardinality(ids) :
          i < j => ~Less(images[ord[j]], images[ord[i]])}

\* The loop of pruneImages over removingImages from position i on.
RECURSIVE removeFrom(_, _, _, _, _, _, _)
removeFrom(ord, i, images, policy, totalSize, gctime, acc) ==
  IF i > Len(ord) THEN acc
  ELSE
    LET img == images[ord[i]]
    IN  IF img.lastUsed >= gctime
          THEN removeFrom(ord, i + 1, images, policy, totalSize, gctime, acc)
        ELSE IF gctime - img.detected < policy.MinAge
          THEN removeFrom(ord, i + 1, images, policy, totalSize, gctime, acc)
        ELSE IF ord[i] \in acc.failing
          THEN removeFrom(ord, i + 1, images, policy, totalSize, gctime,
                          [acc EXCEPT !.failed = @ \cup {ord[i]}])
        ELSE LET next == [acc EXCEPT !.removed = @ \cup {ord[i]},
                                     !.freed = @ + img.sizeBytes]
             IN  IF next.freed >= totalSize THEN next
                 ELSE removeFrom(ord, i + 1, images, policy, totalSize,
                                 gctime, next)

\* The removal loop that takes no account of the age of an image.
pruneImagesAnyAge(g, totalSize, gctime, now, order, failing) ==
  LET d   == detectImages(g, gctime, now)
      out == removeFrom(order, 1, d.images, [g.policy EXCEPT !.MinAge = 0],
                        totalSize, gctime,
                        [removed |-> {}, failed |-> {}, freed |-> 0,
                         failing |-> failing])
  IN  [used |-> d.used, removed |-> out.removed, failed |-> out.failed,
       freed |-> out.freed,
       images |-> [id \in DOMAIN d.images \ out.removed |-> d.images[id]]]

\* pruneImages(ctx, totalSize, gctime): order is the order the sort leaves
\* removingImages in, failing the ids RemoveImage fails for.
pruneImages(g, totalSize, gctime, now, order, failing) ==
  LET d   == detectImages(g, gctime, now)
      out == removeFrom(order, 1, d.images, g.policy, totalSize, gctime,
                        [removed |-> {}, failed |-> {}, freed |-> 0,
                         failing |-> failing])
  IN  [used |-> d.used, removed |-> out.removed, failed |-> out.failed,
       freed |-> out.freed,
       images |-> [id \in DOMAIN d.images \ out.removed |-> d.images[id]]]

\* removingImages before the sort: the records of the images not used.
removingImages(g, gctime, now) ==
  LET d == detectImages(g, gctime, now) IN DOMAIN d.images \ d.used

\* What passes between the time GarbageCollect reads and the time
\* detectImages reads, in ticks.
Lags == {0, 1, 2}

\* The sizes statfs may report: 0, 1, 1 GiB, 75 GiB, 100 GiB, the largest
\* size whose hundredfold fits 64 bits, the next one, 2^62, 2^63 and
\* 2^64 - 1.
Sizes64 ==
  {Zero64, U64(0, 0, 0, 1), U64(0, 0, 16384, 0), U64(0, 18, 49152, 0),
   U64(0, 25, 0, 0), U64(655, 23592, 62914, 36700),
   U64(655, 23592, 62914, 36701), U64(16384, 0, 0, 0), U64(32768, 0, 0, 0),
   U64(65535, 65535, 65535, 65535)}

\* GcPolicy with these thresholds.
PolicyWith(low, high) ==
  [Policy(1, {imageTag("pause")}, {}) EXCEPT
     !.LowThresholdPercent = low, !.HighThresholdPercent = high]

ThresholdPolicies ==
  {PolicyWith(1, 100), PolicyWith(75, 85), PolicyWith(1, 2),
   PolicyWith(99, 100), PolicyWith(0, 85), PolicyWith(85, 85),
   PolicyWith(75, 101)}

\* calculateFreeSizes(ctx) on the stats imageFSStats has read.
calculateFreeSizes(policy, fsstatinfo) ==
  LET avail == fsstatinfo.availableBytes
      cap   == fsstatinfo.capacityBytes
      usagePercent ==
        100 - DivPercent(Ext(Wrap64(MulSmall(avail, 100))), cap)
  IN  IF cap = Zero64
        THEN [size |-> Zero64, err |-> "errUnexpectedFSCapacity"]
      ELSE IF ~Leq(avail, cap)
        THEN [size |-> Zero64, err |-> "errUnexpectedFSCapacity"]
      ELSE IF usagePercent < policy.HighThresholdPercent THEN NoNeed
      ELSE [size |->
              Sub64(Wrap64(DivSmall(Ext(Wrap64(
                      MulSmall(cap, 100 - policy.LowThresholdPercent))), 100)),
                    avail),
            err |-> ""]

NoOp == [op |-> "init", id |-> 0, res |-> "ok"]

\* The goroutines that call the snapshotter at the same time.
Procs == {"p1", "p2"}

\* A caller between calls.  In a call, pc is "attach" or "detach" while the
\* driver works on layer id, "work" elsewhere in the call; tx tells whether
\* the call has begun a read-write transaction, leak whether it returns
\* without ending it.  A Cleanup between its listing and its removals has
\* pc "sweep" and the directories it listed in list.
Idle == [pc |-> "idle", id |-> 0, tx |-> FALSE, leak |-> FALSE, list |-> {}]

Init ==
  /\ cfg \in Configs
  /\ rows = [k \in Names |-> NoRow]
  /\ nextId = 1
  /\ wlock = FALSE
  /\ dirs = <<>>
  /\ att = [i \in Ids |-> Absent]
  /\ issued = [k \in Names |-> NoMounts]
  /\ lastOp = NoOp
  /\ calls = [p \in Procs |-> Idle]
  /\ conf = NoConf
  /\ arch = NoArch
  /\ gc = NoGC
  /\ stack = NoStack

\* The call op on key ends with outcome out.  issued remembers the mount
\* list a successful Prepare, Active or View returned for its key until
\* the layer is removed or committed.
Return(op, key, out) ==
  /\ rows' = out.rows
  /\ nextId' = out.nextId
  /\ wlock' = out.wlock
  /\ dirs' = out.dirs
  /\ att' = out.att
  /\ issued' =
       IF op \in {"Prepare", "Active", "View"} /\ out.res = "ok"
         THEN [issued EXCEPT ![key] = out.mounts]
       ELSE IF op \in {"Remove", "Commit"} /\ out.res = "ok"
         THEN [issued EXCEPT ![key] = NoMounts]
       ELSE issued
  /\ lastOp' = [op |-> op, id |-> 0, res |-> out.res]
  /\ UNCHANGED <<cfg, stack, arch, gc, conf, calls>>

DoPrepare ==
  \E key \in Names, parent \in Names \cup {""}, labels \in PrepareLabels :
    \E out \in {Prepare(key, parent, labels, "none")} :
      out.nextId <= MaxId + 1 /\ Return("Prepare", key, out)

DoActive ==
  \E key \in Names, parent \in Names \cup {""}, labels \in ActiveLabels :
    \E out \in {Active(key, parent, labels, "none")} :
      out.nextId <= MaxId + 1 /\ Return("Active", key, out)

DoView ==
  \E key \in Names, parent \in Names \cup {""}, labels \in ActiveLabels :
    \E out \in {View(key, parent, labels, "none")} :
      out.nextId <= MaxId + 1 /\ Return("View", key, out)

DoCommit ==
  \E name \in Names, key \in Names :
    \E out \in {Commit(name, key, "none")} : Return("Commit", key, out)

DoRemove ==
  \E key \in Names :
    \E out \in {Remove(key, "none")} : Return("Remove", key, out)

DoCleanup == \E out \in {Cleanup("none")} : Return("Cleanup", "", out)

DoStat ==
  \E key \in Names :
    /\ lastOp' = [op |-> "Stat", id |-> 0,
                  res |-> IF Stat(Store, key) = "NotFound" THEN "NotFound" ELSE "ok"]
    /\ UNCHANGED <<cfg, stack, arch, gc, conf, rows, nextId, wlock, dirs, att, issued, calls>>

DoMounts ==
  \E key \in Names :
    /\ lastOp' = [op |-> "Mounts", id |-> 0,
                  res |-> IF Mounts(key).err = "" THEN "ok" ELSE Mounts(key).err]
    /\ UNCHANGED <<cfg, stack, arch, gc, conf, rows, nextId, wlock, dirs, att, issued, calls>>

DoUpdate ==
  \E key \in Names :
    \E out \in {Update(key, "none")} : Return("Update", key, out)

\* The caller of Prepare writes the layer's tar into the bind mount.
DoApply ==
  \E key \in Names :
    /\ Exists(rows[key]) /\ rows[key].kind = "Active"
    /\ HasDir(dirs, fsPath(rows[key].labels, rows[key].id, key))
    /\ ~dirs[fsPath(rows[key].labels, rows[key].id, key)].upper
    /\ dirs' = ApplyWithPlainWrite(dirs, fsPath(rows[key].labels, rows[key].id, key))
    /\ lastOp' = [op |-> "Apply", id |-> 0, res |-> "ok"]
    /\ UNCHANGED <<cfg, stack, arch, gc, conf, rows, nextId, wlock, att, issued, calls>>

Next ==
  \/ DoPrepare
  \/ DoActive
  \/ DoView
  \/ DoCommit
  \/ DoRemove
  \/ DoCleanup
  \/ DoStat
  \/ DoMounts
  \/ DoUpdate
  \/ DoApply

Spec == Init /\ [][Next]_vars

\* An Active that fails at a step after the driver has attached the device:
\* making the upper directory, making or mounting the lower directory,
\* committing the transaction.  The environment fails an Active only while
\* no device is attached.
DoActiveFails ==
  \E key \in Names, parent \in Names, fault \in AfterAttachFaults :
    \E out \in {Active(key, parent, NoLabels, fault)} :
      /\ \A id \in Ids : att[id] = Absent
      /\ out.res \notin {"ok", "blocked"}
      /\ out.nextId <= MaxId + 1
      /\ Return("Active", key, out)

NextFailures ==
  \/ DoPrepare
  \/ DoCommit
  \/ DoRemove
  \/ DoCleanup
  \/ DoActiveFails

\* Layers prepared, committed, removed and swept in an environment where
\* the steps of Active after its attach fail.
SpecFailures == Init /\ [][NextFailures]_vars

(***************************************************************************)
(* The driver alone: attach and detach of single layer ids, with every     *)
(* step of the attach open to failure.                                     *)
(***************************************************************************)
DoAttach ==
  \E id \in Ids, fault \in AttachFaults \cup {"none"} :
    LET r == doOverlayBD(att[id], fault)
    IN  /\ att' = [att EXCEPT ![id] = r.att]
        /\ lastOp' = [op |-> "doOverlayBD", id |-> id,
                      res |-> IF r.err = "" THEN "ok" ELSE r.err]
        /\ UNCHANGED <<cfg, stack, arch, gc, conf, rows, nextId, wlock, dirs, issued, calls>>

DoDetach ==
  \E id \in Ids, fault \in {"none", "kill"} :
    LET r == DriverCleanup(att[id], fault)
    IN  /\ att' = [att EXCEPT ![id] = r.att]
        /\ lastOp' = [op |-> "Cleanup", id |-> id,
                      res |-> IF r.err = "" THEN "ok" ELSE r.err]
        /\ UNCHANGED <<cfg, stack, arch, gc, conf, rows, nextId, wlock, dirs, issued, calls>>

\* Attempt numbers at which a polled thing becomes ready: at once, at the
\* last attempt of the budget, and not within it.
PollTimes(budget) == {0, budget - 1, budget}

\* Attach with the three polled things ready when the environment has them.
DoAttachPolling ==
  \E id \in Ids, e \in PollTimes(EnableAttempts), r \in PollTimes(retryTimes),
     d \in PollTimes(maxAttachAttempts) :
    \E out \in {doOverlayBD(att[id],
                   EnvFault([enable |-> e, ready |-> r, device |-> d]))} :
      /\ att' = [att EXCEPT ![id] = out.att]
      /\ lastOp' = [op |-> "doOverlayBD", id |-> id,
                    res |-> IF out.err = "" THEN "ok" ELSE out.err]
      /\ UNCHANGED <<cfg, stack, arch, gc, conf, rows, nextId, wlock, dirs, issued, calls>>

\* The histories of the result file: made and written at the attempts
\* of PollTimes, with the texts the service writes.
Logs ==
  {log \in [createdAt : PollTimes(retryTimes), writtenAt : PollTimes(retryTimes),
            text : {"success", "success\n", "failed"}] :
     log.createdAt <= log.writtenAt}

\* Attach with the result file as the service makes it.
DoAttachReading ==
  \E id \in Ids, log \in Logs :
    \E out \in {doOverlayBD(att[id], waitReady(retryTimes, log).fault)} :
      /\ att' = [att EXCEPT ![id] = out.att]
      /\ lastOp' = [op |-> "doOverlayBD", id |-> id,
                    res |-> IF out.err = "" THEN "ok" ELSE out.err]
      /\ UNCHANGED <<cfg, stack, arch, gc, conf, rows, nextId, wlock, dirs, issued, calls>>

\* Detach with the service process gone when the environment has it gone.
DoDetachPolling ==
  \E id \in Ids, x \in PollTimes(KillAttempts) :
    \E out \in {DriverCleanup(att[id],
                   IF killProcess(att[id], x).err # "" THEN "kill" ELSE "none")} :
      /\ att' = [att EXCEPT ![id] = out.att]
      /\ lastOp' = [op |-> "Cleanup", id |-> id,
                    res |-> IF out.err = "" THEN "ok" ELSE out.err]
      /\ UNCHANGED <<cfg, stack, arch, gc, conf, rows, nextId, wlock, dirs, issued, calls>>

\* The quota provider's Remove.
DoUmount ==
  \E u \in PollTimes(UmountAttempts), fault \in {"none", "quotaRemove"} :
    \E out \in {umount(u, fault)} :
      /\ lastOp' = [op |-> "umount", id |-> out.attempts,
                    res |-> IF out.err = "" THEN "ok" ELSE out.err]
      /\ UNCHANGED <<cfg, stack, arch, gc, conf, rows, nextId, wlock, dirs, att, issued, calls>>

NextDriver ==
  \/ DoAttach
  \/ DoDetach
  \/ DoAttachPolling
  \/ DoAttachReading
  \/ DoDetachPolling
  \/ DoUmount

SpecDriver == Init /\ [][NextDriver]_vars

\* The labels of a layer the driver looks at: the image reference, when
\* there is one, and the turboOCI digest and media type.
StackLabel(r, m) ==
  [hasRef |-> r # "", ref |-> r, turboDigest |-> "sha256:cc", mediaType |-> m]

StackLabels ==
  {StackLabel("reg/app:v1", MediaTypeImageLayerGzip),
   StackLabel("hub/lib:v2", MediaTypeImageLayer),
   StackLabel(BadRef, MediaTypeImageLayerGzip),
   StackLabel("", MediaTypeDockerSchema2LayerGzip)}

\* The parents of a new layer in directory dir: none, or a layer in
\* another directory.
ParentDirs(dir) == {""} \cup (SnDirs \ {dir})

ParentKey(parentDir) == IF parentDir = "" THEN "" ELSE "parent"

\* The directory of a new layer is named by the next id of the store's
\* sequence, which a failed call gives back.
SnDirOrder == <<"/var/sn/1", "/var/sn/2", "/var/sn/3">>

NewDirs ==
  {SnDirOrder[i] : i \in {i \in DOMAIN SnDirOrder :
     /\ ~stack.files[SnDirOrder[i]].exists
     /\ \A j \in 1..(i - 1) : stack.files[SnDirOrder[j]].exists}}

StackUnchanged ==
  UNCHANGED <<cfg, arch, gc, conf, rows, nextId, wlock, dirs, att, issued,
              lastOp, calls>>

DoConstructOverlayBDSpec ==
  \E snDir \in NewDirs, labels \in StackLabels, blobSize \in BlobSizes,
     fault \in {"none", "writeConfig"} :
    \E parentDir \in ParentDirs(snDir) :
      \E out \in {ConstructOverlayBDSpec(stack.files, ParentKey(parentDir),
                     labels, snDir, parentDir, "sha256:aa", blobSize, fault)} :
        /\ stack' = [files |-> out.files, op |-> "plain", dir |-> snDir,
                     parentDir |-> parentDir,
                     labels |-> <<labels, blobSize>>, err |-> out.err]
        /\ StackUnchanged

DoConstructTurboOCISpec ==
  \E snDir \in NewDirs, labels \in StackLabels,
     fault \in {"none", "writeConfig"} :
    \E parentDir \in ParentDirs(snDir) :
      \E out \in {ConstructTurboOCISpec(stack.files, ParentKey(parentDir),
                     labels, snDir, parentDir, fault)} :
        /\ stack' = [files |-> out.files, op |-> "turbo", dir |-> snDir,
                     parentDir |-> parentDir,
                     labels |-> <<labels, <<>> >>, err |-> out.err]
        /\ StackUnchanged

DoConstructOverlayBDWritableSpec ==
  \E dir \in NewDirs, fault \in {"none", "writeConfig"} :
    \E parentDir \in SnDirs \ {dir} :
      \E out \in {ConstructOverlayBDWritableSpec(stack.files, dir, parentDir,
                     fault)} :
        /\ stack' = [files |-> out.files, op |-> "writable", dir |-> dir,
                     parentDir |-> parentDir, labels |-> <<>>,
                     err |-> out.err]
        /\ StackUnchanged

NextStack ==
  \/ DoConstructOverlayBDSpec
  \/ DoConstructTurboOCISpec
  \/ DoConstructOverlayBDWritableSpec

SpecStack == Init /\ [][NextStack]_vars

\* WriteConfig(config, targetPath) in the steps of the atomic write: a
\* temporary file beside the target takes the first part of the data ...
WriteConfigTemp ==
  \E c \in Descriptors :
    /\ conf.pc = "idle"
    /\ conf' = [conf EXCEPT !.pc = "temp", !.want = c,
                  !.tmp = [exists |-> TRUE, whole |-> FALSE,
                           doc |-> Marshal(c)]]
    /\ UNCHANGED <<cfg, stack, arch, gc, rows, nextId, wlock, dirs, att, issued, lastOp, calls>>

\* ... then the rest of it ...
WriteConfigData ==
  /\ conf.pc = "temp"
  /\ conf' = [conf EXCEPT !.pc = "written", !.tmp.whole = TRUE]
  /\ UNCHANGED <<cfg, stack, arch, gc, rows, nextId, wlock, dirs, att, issued, lastOp, calls>>

\* ... and is renamed over the target.
WriteConfigRename ==
  /\ conf.pc = "written"
  /\ conf' = [conf EXCEPT !.pc = "idle", !.file = conf.tmp, !.tmp = NoFile,
                !.last = conf.want, !.want = ZeroConfig]
  /\ lastOp' = [op |-> "WriteConfig", id |-> 0, res |-> "ok"]
  /\ UNCHANGED <<cfg, stack, arch, gc, rows, nextId, wlock, dirs, att, issued, calls>>

\* A write or the rename fails: the temporary file is removed and the
\* target keeps what it had.
WriteConfigFails ==
  /\ conf.pc \in {"temp", "written"}
  /\ conf' = [conf EXCEPT !.pc = "idle", !.tmp = NoFile, !.want = ZeroConfig]
  /\ lastOp' = [op |-> "WriteConfig", id |-> 0, res |-> "Error"]
  /\ UNCHANGED <<cfg, stack, arch, gc, rows, nextId, wlock, dirs, att, issued, calls>>

\* A reader of the target, at any moment of a write.
DoReadConfig ==
  \E out \in {ReadConfig(conf.file)} :
    /\ lastOp' = [op |-> "ReadConfig", id |-> 0,
                  res |-> IF out.err = "" THEN "ok" ELSE out.err]
    /\ UNCHANGED <<cfg, stack, arch, gc, conf, rows, nextId, wlock, dirs, att, issued, calls>>

NextConfig ==
  \/ WriteConfigTemp
  \/ WriteConfigData
  \/ WriteConfigRename
  \/ WriteConfigFails
  \/ DoReadConfig

SpecConfig == Init /\ [][NextConfig]_vars

(***************************************************************************)
(* The extraction of one layer archive with whiteout translation.         *)
(***************************************************************************)
\* The extraction handles the next entry of the archive: the translation
\* first, then the write of an entry the translation keeps.  An error of
\* the translation ends the extraction.
ApplyEntry ==
  /\ arch.count < MaxEntries
  /\ arch.last.err = ""
  /\ \E hdr \in Headers, path \in EntryPaths(arch.fs) :
       \E r \in {OverlayConvertWhiteout(arch.fs, hdr, path, "none")} :
         arch' = [fs     |-> IF r.keep /\ r.err = ""
                               THEN WriteEntry(r.fs, hdr, path) ELSE r.fs,
                  before |-> arch.fs,
                  last   |-> [path |-> path, hdr |-> hdr, keep |-> r.keep,
                              err |-> r.err],
                  count  |-> arch.count + 1]
  /\ UNCHANGED <<cfg, stack, gc, conf, rows, nextId, wlock, dirs, att, issued,
                 lastOp, calls>>

\* The extraction of another layer starts on an empty root.
NextLayer ==
  /\ arch.count > 0
  /\ arch' = NoArch
  /\ UNCHANGED <<cfg, stack, gc, conf, rows, nextId, wlock, dirs, att, issued,
                 lastOp, calls>>

NextArchive == ApplyEntry \/ NextLayer

SpecArchive == Init /\ [][NextArchive]_vars

(***************************************************************************)
(* The image collector and the runtime it watches.                        *)
(***************************************************************************)
GcUnchanged ==
  UNCHANGED <<cfg, stack, arch, conf, rows, nextId, wlock, dirs, att, issued,
              lastOp, calls>>

\* NewImageGarbageCollect(criruntime, policy, ...): a policy that is
\* refused leaves no collector.
NewImageGarbageCollect ==
  /\ gc.handler = "none"
  /\ \E policy \in Policies :
       gc' = IF validateGCPolicy(policy) THEN gc
             ELSE [gc EXCEPT !.handler = "ready", !.policy = policy]
  /\ GcUnchanged

\* The runtime pulls an image.
PullImage ==
  /\ gc.handler = "ready"
  /\ \E img \in Catalog \ gc.listed :
       gc' = [gc EXCEPT !.listed = @ \cup {img}]
  /\ GcUnchanged

\* Someone else removes an image no container uses from the runtime.
RuntimeRemoveImage ==
  /\ gc.handler = "ready"
  /\ \E img \in gc.listed :
       /\ img.ID \notin gc.containers
       /\ gc' = [gc EXCEPT !.listed = @ \ {img}]
  /\ GcUnchanged

\* A container of a listed image starts; the last container of an image
\* goes.
RunContainer ==
  /\ \E img \in gc.listed :
       /\ img.ID \notin gc.containers
       /\ gc' = [gc EXCEPT !.containers = @ \cup {img.ID}]
  /\ GcUnchanged

StopContainer ==
  /\ \E id \in gc.containers : gc' = [gc EXCEPT !.containers = @ \ {id}]
  /\ GcUnchanged

\* One pass of pruneImages at the time of the clock; the clock goes on
\* while the runtime is listed.
DoPruneImages ==
  /\ gc.handler = "ready"
  /\ gc.passes < MaxPasses
  /\ \E totalSize \in {size1k, size1M}, lag \in Lags,
        failing \in {{}, {imageID("hijk")}} :
       LET gctime == gc.clock
           now    == gc.clock + lag
       IN  /\ now <= MaxTime
           /\ \E order \in SortedOrders(detectImages(gc, gctime, now).images,
                                         removingImages(gc, gctime, now)) :
                \E out \in {pruneImages(gc, totalSize, gctime, now, order,
                                        failing)} :
                  gc' = [gc EXCEPT
                           !.images = out.images,
                           !.listed = {img \in @ : img.ID \notin out.removed},
                           !.clock = now,
                           !.passes = @ + 1,
                           !.last = [gctime |-> gctime,
                                     totalSize |-> totalSize,
                                     removed |-> out.removed,
                                     failed |-> out.failed,
                                     freed |-> out.freed]]
  /\ GcUnchanged

NextGC ==
  \/ NewImageGarbageCollect \/ PullImage \/ RuntimeRemoveImage
  \/ RunContainer \/ StopContainer \/ DoPruneImages

SpecGC == Init /\ [][NextGC]_vars

(***************************************************************************)
(* The disk pressure the collector reads off the image filesystem.        *)
(***************************************************************************)
\* NewImageGarbageCollect with a policy of other thresholds.
NewCollectorWithThresholds ==
  /\ gc.handler = "none"
  /\ \E policy \in ThresholdPolicies :
       gc' = IF validateGCPolicy(policy) THEN gc
             ELSE [gc EXCEPT !.handler = "ready", !.policy = policy]
  /\ GcUnchanged

\* The image filesystem fills or empties: what statfs will report.
Statfs ==
  /\ \E avail \in Sizes64, cap \in Sizes64 :
       gc' = [gc EXCEPT !.fs = [availableBytes |-> avail,
                                capacityBytes |-> cap]]
  /\ GcUnchanged

\* GarbageCollect reads the pressure.
DoCalculateFreeSizes ==
  /\ gc.handler = "ready"
  /\ gc' = [gc EXCEPT !.need = calculateFreeSizes(gc.policy, gc.fs)]
  /\ GcUnchanged

NextFree == NewCollectorWithThresholds \/ Statfs \/ DoCalculateFreeSizes

SpecFree == Init /\ [][NextFree]_vars

(***************************************************************************)
(* Concurrent callers.  A call that needs the writer begins when            *)
(* TransactionContext(ctx, true) returns, which it does for one caller at   *)
(* a time; what the call does to the store, the directories and the        *)
(* attachments lies between that and its return, and is seen by no other   *)
(* writer.  Within the call, the driver's attach or detach of a layer id   *)
(* is an interval of its own.  View begins no transaction.                 *)
(***************************************************************************)
\* Caller p enters a call that holds the writer and leaves outcome out;
\* phase is the part of the call it is in first.
Enter(p, out, phase, id) ==
  /\ calls[p].pc = "idle"
  /\ ~wlock
  /\ out.nextId <= MaxId + 1
  /\ rows' = out.rows
  /\ nextId' = out.nextId
  /\ dirs' = out.dirs
  /\ att' = out.att
  /\ wlock' = TRUE
  /\ calls' = [calls EXCEPT ![p] =
                 [pc |-> phase, id |-> id, tx |-> TRUE, leak |-> out.wlock,
                  list |-> {}]]
  /\ UNCHANGED <<cfg, stack, arch, gc, conf, issued, lastOp>>

CallPrepare ==
  \E p \in Procs, key \in Names, parent \in Names \cup {""},
     labels \in PrepareLabels :
    \E out \in {Prepare(key, parent, labels, "none")} :
      Enter(p, out, "work", 0)

\* Active attaches the new layer id when prepareLower gets as far as
\* doOverlayBD.
CallActive ==
  \E p \in Procs, key \in Names, parent \in Names \cup {""},
     labels \in ActiveLabels :
    \E out \in {Active(key, parent, labels, "none")} :
      IF out.att[nextId] # att[nextId]
        THEN Enter(p, out, "attach", nextId)
        ELSE Enter(p, out, "work", 0)

CallCommit ==
  \E p \in Procs, name \in Names, key \in Names :
    \E out \in {Commit(name, key, "none")} :
      Enter(p, out, "work", 0)

\* Remove detaches the id of every layer it finds.
CallRemove ==
  \E p \in Procs, key \in Names :
    \E out \in {Remove(key, "none")} :
      IF GetInfoErr(Store, key) = ""
        THEN Enter(p, out, "detach", rows[key].id)
        ELSE Enter(p, out, "work", 0)

\* View asks for no transaction: it runs whoever holds the writer.
CallView ==
  \E p \in Procs, key \in Names, parent \in Names \cup {""},
     labels \in ActiveLabels :
    \E out \in {View(key, parent, labels, "none")} :
      /\ calls[p].pc = "idle"
      /\ dirs' = out.dirs
      /\ att' = out.att
      /\ calls' = [calls EXCEPT ![p] =
                     [pc |-> IF out.att[nextId] # att[nextId]
                               THEN "attach" ELSE "work",
                      id |-> IF out.att[nextId] # att[nextId]
                               THEN nextId ELSE 0,
                      tx |-> FALSE, leak |-> FALSE, list |-> {}]]
      /\ UNCHANGED <<cfg, stack, arch, gc, conf, rows, nextId, wlock, issued, lastOp>>

\* The driver's attach or detach returns to the call.
DriverReturns ==
  \E p \in Procs :
    /\ calls[p].pc \in {"attach", "detach"}
    /\ calls' = [calls EXCEPT ![p].pc = "work", ![p].id = 0]
    /\ UNCHANGED <<cfg, stack, arch, gc, conf, rows, nextId, wlock, dirs, att, issued, lastOp>>

\* The call returns; its transaction has been committed or rolled back
\* unless the call leaks it.
CallReturns ==
  \E p \in Procs :
    /\ calls[p].pc = "work"
    /\ wlock' = IF calls[p].tx THEN calls[p].leak ELSE wlock
    /\ calls' = [calls EXCEPT ![p] = Idle]
    /\ UNCHANGED <<cfg, stack, arch, gc, conf, rows, nextId, dirs, att, issued, lastOp>>

NextConcurrent ==
  \/ CallPrepare
  \/ CallActive
  \/ CallCommit
  \/ CallRemove
  \/ CallView
  \/ DriverReturns
  \/ CallReturns

SpecConcurrent == Init /\ [][NextConcurrent]_vars

\* Cleanup lists the directories to remove in a read-write transaction of
\* its own, which cleanupDirectories has rolled back when it returns.
CallCleanup ==
  \E p \in Procs :
    /\ calls[p].pc = "idle"
    /\ ~wlock
    /\ calls' = [calls EXCEPT ![p] =
                   [pc |-> "sweep", id |-> 0, tx |-> FALSE, leak |-> FALSE,
                    list |-> getCleanupDirectories(Store, dirs)]]
    /\ UNCHANGED <<cfg, stack, arch, gc, conf, rows, nextId, wlock, dirs, att, issued, lastOp>>

\* Cleanup removes what it listed, whatever has been called meanwhile,
\* and returns.
SweepDirs ==
  \E p \in Procs :
    /\ calls[p].pc = "sweep"
    /\ dirs' = RemoveAllDirs(dirs, calls[p].list)
    /\ calls' = [calls EXCEPT ![p] = Idle]
    /\ lastOp' = [op |-> "Cleanup", id |-> 0, res |-> "ok"]
    /\ UNCHANGED <<cfg, stack, arch, gc, conf, rows, nextId, wlock, att, issued>>

NextSweep ==
  \/ CallPrepare
  \/ CallActive
  \/ CallCommit
  \/ CallRemove
  \/ CallView
  \/ DriverReturns
  \/ CallReturns
  \/ CallCleanup
  \/ SweepDirs

SpecSweep == Init /\ [][NextSweep]_vars

(***************************************************************************)
(* Properties.                                                             *)
(***************************************************************************)
\* The store a call leaves.
After(out) == [rows |-> out.rows, nextId |-> out.nextId]

Parents == Names \cup {""}

\* C1: in every reachable state, for every name and key, a Commit(name, key)
\* that returns success - whatever step of it the environment was asked to
\* fail - leaves a store in which Stat(name) reports kind Committed and
\* Stat(key) fails with NotFound.
C1_CommitMovesLayer ==
  \A name \in Names, key \in Names, fault \in CommitFaults \cup {"none"} :
    LET out == Commit(name, key, fault)
    IN  out.res = "ok" =>
          /\ Stat(After(out), name) = "Committed"
          /\ Stat(After(out), key) = "NotFound"

\* A Commit has just returned success and a Committed layer is in the store.
C1_Witness ==
  /\ lastOp.op = "Commit" /\ lastOp.res = "ok"
  /\ \E name \in Names : Stat(Store, name) = "Committed"

\* What it is for a failed call to have been rolled back: the store is as it
\* was and the writer is free.
RolledBack(out) == ~out.wlock /\ out.rows = rows /\ out.nextId = nextId

Failed(out) == out.res \notin {"ok", "blocked"}

\* C2: in every reachable state with the writer free, a Prepare or an Active
\* that returns an error - on any path, with the environment failing at any
\* of its steps or at none - has rolled its transaction back: the store shows
\* no new row and a later write operation can begin its transaction.
C2_ErrorRollsBack ==
  ~wlock =>
    \A key \in Names, parent \in Parents :
      /\ \A labels \in PrepareLabels, fault \in PrepareFaults \cup {"none"} :
           LET out == Prepare(key, parent, labels, fault)
           IN  Failed(out) => RolledBack(out)
      /\ \A labels \in ActiveLabels, fault \in ActiveFaults \cup {"none"} :
           LET out == Active(key, parent, labels, fault)
           IN  Failed(out) => RolledBack(out)

\* C3: in every reachable state with the writer free, a Commit(name, key)
\* that fails at any step has rolled back: the store is as before (the layer
\* still Active under key, no Committed layer name made) and the writer
\* transaction is released.
C3_FailedCommitRollsBack ==
  ~wlock =>
    \A name \in Names, key \in Names, fault \in CommitFaults \cup {"none"} :
      LET out == Commit(name, key, fault)
      IN  out.res # "ok" => RolledBack(out)

\* C4: in every reachable state with the writer free, a Prepare of an unused
\* key whose labels carry the blob digest and size and no turbo digest, on no
\* parent or on a Committed parent that has its descriptor, and whose
\* snapshot.ref names no layer yet, returns (it does not block) with
\* AlreadyExists, leaving a Committed layer of that name and no layer key.
C4_SkipFetchReturns ==
  ~wlock =>
    \A key \in Names, parent \in Parents,
       labels \in {l \in PrepareLabels : l.blob /\ ~l.turbo} :
      LET out  == Prepare(key, parent, labels, "none")
          pdir == fsPath(rows[parent].labels, rows[parent].id, parent)
      IN  ( /\ Stat(Store, key) = "NotFound"
            /\ key # labels.sref
            /\ Stat(Store, labels.sref) = "NotFound"
            /\ parent # "" =>
                 /\ Stat(Store, parent) = "Committed"
                 /\ HasDir(dirs, pdir) /\ dirs[pdir].config # "none" )
          => /\ out.res = "AlreadyExists"
             /\ Stat(After(out), labels.sref) = "Committed"
             /\ Stat(After(out), key) = "NotFound"

\* C5: whenever an attach for a layer id has just returned an error, the
\* attachment of that id is Absent: no target directory, no loopback node,
\* tpgt or lun directory, no LUN symlink and no service process.
C5_FailedAttachLeavesAbsent ==
  (lastOp.op = "doOverlayBD" /\ lastOp.res # "ok") => att[lastOp.id] = Absent

\* C6: in every reachable state with the writer free, an Active that would
\* succeed but for a failure at a step after the driver's attach (upper
\* directory, lower directory, lower mount, transaction commit) leaves no
\* attachment of the new layer id and no upper or lower directory of it.
C6_FailedActiveCleansUp ==
  ~wlock =>
    \A key \in Names, parent \in Names, labels \in ActiveLabels,
       fault \in AfterAttachFaults :
      LET out == Active(key, parent, labels, fault)
          dir == fsPath([labels EXCEPT !.rw = TRUE], nextId, key)
      IN  (Active(key, parent, labels, "none").res = "ok" /\ out.res # "ok")
          => /\ out.att[nextId] = Absent
             /\ HasDir(out.dirs, dir) =>
                  ~out.dirs[dir].upper /\ ~out.dirs[dir].lower

\* C7: in every reachable state, for every Committed layer that has a child,
\* a Remove of it - with the environment failing at any step or at none -
\* leaves the store as it was (every row and parent link, the id counter,
\* the writer) and does not succeed; in an environment that does not fail,
\* a Remove that returns returns FailedPrecondition.
C7_RemoveRefusesParent ==
  \A key \in Names, fault \in RemoveFaults \cup {"none"} :
    (Stat(Store, key) = "Committed" /\ Children(Store, key) # {}) =>
      LET out == Remove(key, fault)
      IN  /\ out.rows = rows /\ out.nextId = nextId /\ out.wlock = wlock
          /\ out.res # "ok"
          /\ fault = "none" => out.res \in {"FailedPrecondition", "blocked"}

\* A Remove of a Committed layer with a child has just been refused.
C7_Witness ==
  /\ lastOp.op = "Remove" /\ lastOp.res = "FailedPrecondition"
  /\ \E key \in Names :
       Stat(Store, key) = "Committed" /\ Children(Store, key) # {}

\* Every parent reference names a Committed layer of the store.
ParentsCommitted ==
  \A key \in Names :
    (Exists(rows[key]) /\ rows[key].parent # "") =>
      Stat(Store, rows[key].parent) = "Committed"

\* A call has been rejected and has made nothing: no row, no directory.
Rejected(out) ==
  /\ out.res \notin {"ok", "blocked"}
  /\ out.rows = rows
  /\ DOMAIN out.dirs \subseteq DOMAIN dirs
  /\ out.homes = {}

\* C8: in every reachable state every parent reference names a Committed
\* layer, and (the writer being free) a Prepare, an Active or a View whose
\* parent names an Active or View layer or no layer is rejected and creates
\* no row and no directory.
C8_ParentMustBeCommitted ==
  /\ ParentsCommitted
  /\ ~wlock =>
       \A key \in Names, parent \in Names :
         Stat(Store, parent) # "Committed" =>
           /\ \A labels \in PrepareLabels :
                Rejected(Prepare(key, parent, labels, "none"))
           /\ \A labels \in ActiveLabels :
                /\ Rejected(Active(key, parent, labels, "none"))
                /\ Rejected(View(key, parent, labels, "none"))

\* C9: in every reachable state, for every Active layer made by a successful
\* Active and not removed or committed since, Mounts(key) succeeds and
\* returns the mount list that Active returned.
C9_MountsRepeatsActive ==
  \A key \in Names :
    ( /\ Stat(Store, key) = "Active"
      /\ rows[key].labels.rw
      /\ issued[key] # NoMounts )
    => /\ Mounts(key).err = ""
       /\ Mounts(key).mounts = issued[key]

\* C10: in every reachable state with the writer free, for every parent
\* committed through the plain path (a Prepare without labels, then Commit)
\* and every unused key, Active(key, parent) succeeds and returns exactly
\* one overlay mount whose options are lowerdir=<lower>, upperdir=<upper>/fs,
\* workdir=<upper>/work, then index=off when the kernel supports it, then
\* userxattr when the host needs it.
C10_ActiveOnPlainParent ==
  ~wlock =>
    \A key \in Names, parent \in Names, labels \in ActiveLabels :
      ( /\ Stat(Store, parent) = "Committed"
        /\ rows[parent].labels = NoLabels
        /\ Stat(Store, key) = "NotFound" )
      => LET out == Active(key, parent, labels, "none")
             rw  == [labels EXCEPT !.rw = TRUE]
             up  == upperPath(rw, nextId, key)
         IN  /\ out.res = "ok"
             /\ Len(out.mounts) = 1
             /\ out.mounts[1].type = "overlay"
             /\ out.mounts[1].options =
                  <<Opt("lowerdir", lowerPath(rw, nextId, key)),
                    Opt("upperdir", [up EXCEPT !.sub = "upper/fs"]),
                    Opt("workdir", [up EXCEPT !.sub = "upper/work"])>>
                  \o (IF cfg.indexOff THEN <<Flag("index=off")>> ELSE <<>>)
                  \o (IF cfg.userxattr THEN <<Flag("userxattr")>> ELSE <<>>)

\* C11: in every reachable state, a View(key, parent) of an unused key on a
\* Committed parent succeeds, records a layer of kind View for key, makes no
\* upper directory and returns exactly one mount: a read-only bind mount
\* (ro, rbind) of the parent's directory when the parent chain has one
\* layer, an overlay mount whose only option is lowerdir when it has more.
C11_ViewReturnsReadOnlyMount ==
  \A key \in Names, parent \in Names, labels \in ActiveLabels :
    (Stat(Store, parent) = "Committed" /\ Stat(Store, key) = "NotFound") =>
      LET out   == View(key, parent, labels, "none")
          chain == ParentIDs(Store, parent)
          pdir  == fsPath(rows[parent].labels, rows[parent].id, parent)
      IN  /\ out.res = "ok"
          /\ Stat(After(out), key) = "View"
          /\ \A p \in DOMAIN out.dirs :
               out.dirs[p].upper => (HasDir(dirs, p) /\ dirs[p].upper)
          /\ Len(out.mounts) = 1
          /\ Len(chain) = 1 =>
               /\ out.mounts[1].type = "bind"
               /\ out.mounts[1].source = pdir
               /\ out.mounts[1].options = <<Flag("ro"), Flag("rbind")>>
          /\ Len(chain) > 1 =>
               /\ out.mounts[1].type = "overlay"
               /\ Len(out.mounts[1].options) = 1
               /\ out.mounts[1].options[1].opt = "lowerdir"

\* The directories Cleanup looks at: those below <root>/snapshots and
\* <defaultUpperDir>/snapshots.
SnapshotRoots == {"root", cfg.defaultUpperDir}

InDriver(p) == calls[p].pc \in {"attach", "detach"}

\* C14: in every interleaving of concurrent Prepare, Active, View, Commit
\* and Remove calls, no two callers are inside an attach or a detach of the
\* same layer id at the same time.
C14_AttachDetachExclusive ==
  \A p \in Procs, q \in Procs :
    (p # q /\ InDriver(p) /\ InDriver(q)) => calls[p].id # calls[q].id

\* One caller is inside a detach of a layer while the other is inside a
\* call of its own.
C14_Witness ==
  \E p \in Procs, q \in Procs :
    /\ p # q
    /\ calls[p].pc = "detach" /\ calls[p].id # 0
    /\ calls[q].pc = "work"

\* The label sets the driver tells apart: blob labels, turbo label and
\* image reference, each present or absent.
DriverLabels ==
  {[NoLabels EXCEPT !.blob = b, !.turbo = t, !.ref = r] :
     b \in BOOLEAN, t \in BOOLEAN, r \in BOOLEAN}

\* The directory of layer parent, as prepareLower hands it to the driver.
ParentDirOf(parent) ==
  IF parent # "" /\ Exists(rows[parent])
    THEN fsPath(rows[parent].labels, rows[parent].id, parent)
    ELSE NoPath

C16_QuotaOutOfRangeRejected ==
  ~wlock =>
    \A key \in Names, parent \in Names, q \in QuotaValues :
      LET labels == [NoLabels EXCEPT !.quota = q]
          out    == Active(key, parent, labels, "none")
          dir    == fsPath([labels EXCEPT !.rw = TRUE], nextId, key)
          size   == ParseQuantity(q)
      IN  Active(key, parent, NoLabels, "none").res = "ok" =>
            /\ (HasDir(out.dirs, dir) /\ out.dirs[dir].quotaMounted) =>
                 (size >= MinActiveQuota /\ size <= MaxActiveQuota)
            /\ (size < MinActiveQuota \/ size > MaxActiveQuota) =>
                 (out.res = "InvalidArgument" /\ out.rows = rows)

\* The environments of one attach: when each polled thing becomes ready.
PollEnvs ==
  [enable : PollTimes(EnableAttempts), ready : PollTimes(retryTimes),
   device : PollTimes(maxAttachAttempts)]

\* Every loop of an attach stops within its budget (100, 1000, 400), and
\* an attach whose budget ran out returns an error, having undone what it
\* set up: an attachment that was absent is absent again.
AttachPollsBounded ==
  \A env \in PollEnvs :
    /\ Poll(EnableAttempts, env.enable).attempts \in 1..100
    /\ Poll(retryTimes, env.ready).attempts \in 1..1000
    /\ Poll(maxAttachAttempts, env.device).attempts \in 1..400
    /\ (\/ ~Poll(EnableAttempts, env.enable).done
        \/ ~Poll(retryTimes, env.ready).done
        \/ ~Poll(maxAttachAttempts, env.device).done)
         => \A id \in Ids :
              \E out \in {doOverlayBD(att[id], EnvFault(env))} :
                /\ out.err # ""
                /\ att[id] = Absent => out.att = Absent

\* The wait for the service process to exit stops within 500 attempts, and
\* running out of them is an error of killProcess and of the Cleanup that
\* called it.
KillPollBounded ==
  \A x \in PollTimes(KillAttempts), id \in Ids :
    \E k \in {killProcess(att[id], x)} :
      /\ k.attempts \in 0..500
      /\ (att[id].proc /\ ~Poll(KillAttempts, x).done)
           => /\ k.err # ""
              /\ DriverCleanup(att[id],
                   IF k.err # "" THEN "kill" ELSE "none").err # ""

\* C17: every polling loop is bounded (enable at most 100 attempts,
\* readiness at most 1000, block-device probe at most 400, process
\* termination at most 500, quota unmount wait at most 30), so every
\* operation terminates, and exhausting the budget at any of these stages
\* surfaces an error and triggers the compensations.
C17_ExhaustedPollIsAnError ==
  /\ AttachPollsBounded
  /\ KillPollBounded
  /\ \A u \in PollTimes(UmountAttempts) :
       \E o \in {umount(u, "none")} :
         /\ o.attempts \in 1..30
         /\ ~o.released => o.err # ""

\* C17, amended: the loops are bounded as stated; running out of the
\* enable, readiness or probe budget fails the attach after its
\* compensations and running out of the termination budget fails
\* killProcess, but the quota unmount wait is given up after its 30
\* attempts without an error.
C17_ExhaustedDriverPollIsAnError ==
  /\ AttachPollsBounded
  /\ KillPollBounded
  /\ \A u \in PollTimes(UmountAttempts) :
       \E o \in {umount(u, "none")} :
         /\ o.attempts \in 1..30
         /\ o.err = ""
         /\ o.released <=> u < 30

\* A quota unmount has used up its 30 attempts and returned success.
C17_Witness ==
  /\ lastOp.op = "umount"
  /\ lastOp.id = UmountAttempts
  /\ lastOp.res = "ok"

\* The parts of an attachment in the order a detach takes them down.
DetachOrder == <<"link", "lun", "tpgt", "loop", "proc", "target">>

\* C18: driver Cleanup takes the attachment down in the order LUN symlink,
\* LUN directory, TPGT directory, loopback node directory, service process,
\* target directory (a Cleanup that fails at one part has taken down every
\* part before it and touched none after it); every step tolerates a part
\* that is already absent, so Cleanup of an absent attachment succeeds and
\* changes nothing, and a second Cleanup leaves what the first one left.
C18_CleanupOrderedAndIdempotent ==
  \A id \in Ids :
    /\ \A k \in 1..Len(DetachOrder) :
         \E out \in {DriverCleanup(att[id], CleanupSteps[k])} :
           out.err # "" =>
             /\ \A j \in 1..(k - 1) : ~out.att[DetachOrder[j]]
             /\ \A j \in k..Len(DetachOrder) :
                  out.att[DetachOrder[j]] = att[id][DetachOrder[j]]
    /\ \A fault \in CleanupFaults \cup {"none"} :
         att[id] = Absent =>
           DriverCleanup(att[id], fault) = [err |-> "", att |-> Absent]
    /\ \E once \in {DriverCleanup(att[id], "none")} :
         /\ once.err = ""
         /\ DriverCleanup(once.att, "none") = once

\* A Cleanup failed at the wait for the service process: the loopback side
\* is gone, the process and the target directory are still there.
C18_Witness ==
  /\ lastOp.op = "Cleanup"
  /\ lastOp.res = "Error"
  /\ att[lastOp.id] =
       [target |-> TRUE, proc |-> TRUE, loop |-> FALSE, tpgt |-> FALSE,
        lun |-> FALSE, link |-> FALSE]

\* C19: a descriptor that WriteConfig has written is what ReadConfig
\* returns, field for field (image reference, repo blob URL, the lower list
\* in its order with every field, upper, result file), and a reader of
\* config.v1.json, at any moment of a write, gets either no file or the
\* whole descriptor of the last finished write, never a part of one.
C19_ConfigRoundTrip ==
  /\ conf.file.exists =>
       ReadConfig(conf.file) = [err |-> "", config |-> conf.last]
  /\ ~conf.file.exists => ReadConfig(conf.file).err = "NotExist"
  /\ conf.pc = "written" => Unmarshal(conf.tmp.doc) = conf.want

\* A reader got the descriptor of a finished write, with a lower list of two
\* entries, while the next write of another descriptor had only part of its
\* data in the temporary file.
C19_Witness ==
  /\ lastOp.op = "ReadConfig"
  /\ lastOp.res = "ok"
  /\ conf.pc = "temp"
  /\ conf.want # conf.last
  /\ conf.last.Lowers = <<BaseLower, PlainLower>>
  /\ ReadConfig(conf.file).config = conf.last

\* The labels that decide a layer's paths: the active-path label absent,
\* absolute or relative, with and without the rwlayer label.
PathLabels ==
  {[NoLabels EXCEPT !.home = h, !.rw = r] :
     h \in {"", "abs", "rel"}, r \in BOOLEAN}

\* C20: path resolution is a three-way choice.  With an absolute active-path
\* label the layer's directory is <home>/.rwlayer/<key>/<id> and its upper
\* directory is that plus /upper; otherwise with the rwlayer label the
\* paths are under <defaultUpperDir>/snapshots/<id>; otherwise under
\* <root>/snapshots/<id>.  getActivePath fails when the label is absent and
\* fails with InvalidArgument when the label is not an absolute path.
C20_PathResolution ==
  \A labels \in PathLabels, id \in Ids, key \in Names :
    /\ labels.home = "abs" =>
         /\ getActivePathErr(labels) = ""
         /\ fsPath(labels, id, key) =
              [base |-> "home", key |-> key, id |-> id, sub |-> ""]
         /\ upperPath(labels, id, key) =
              [base |-> "home", key |-> key, id |-> id, sub |-> "upper"]
    /\ (labels.home # "abs" /\ labels.rw) =>
         /\ fsPath(labels, id, key) =
              [base |-> cfg.defaultUpperDir, key |-> "", id |-> id, sub |-> ""]
         /\ upperPath(labels, id, key) =
              [base |-> cfg.defaultUpperDir, key |-> "", id |-> id,
               sub |-> "upper"]
    /\ (labels.home # "abs" /\ ~labels.rw) =>
         /\ fsPath(labels, id, key) =
              [base |-> "root", key |-> "", id |-> id, sub |-> ""]
         /\ upperPath(labels, id, key) =
              [base |-> "root", key |-> "", id |-> id, sub |-> "upper"]
    /\ labels.home = "" => getActivePathErr(labels) = "NotFound"
    /\ labels.home = "rel" => getActivePathErr(labels) = "InvalidArgument"

\* An Active has succeeded with a separate default upper root configured:
\* its layer stands below the caller's active path, under its key, and its
\* parent below the root.
C20_Witness ==
  /\ lastOp.op = "Active" /\ lastOp.res = "ok"
  /\ cfg.defaultUpperDir # "root"
  /\ \E p \in DOMAIN dirs : p.base = "home" /\ p.key \in Names
  /\ \E p \in DOMAIN dirs : p.base = "root"

\* C21: for every id the store can assign, the loopback WWN is naa.199
\* followed by the id padded with zeros on the left to 13 digits, and the
\* derived names (target path, WWN, loopback node path, LUN path) are
\* defined and different for different ids.
C21_DerivedNamesInjective ==
  \A id \in SnIDs \cup {FormatUint(i) : i \in DOMAIN att} :
    /\ ~overlaybdLoopbackDeviceID(id).panic
    /\ Len(overlaybdLoopbackDeviceID(id).name) = 4 + 13
    /\ SubSeq(overlaybdLoopbackDeviceID(id).name, 1, 4)
         = <<"naa.", "1", "9", "9">>
    /\ \A other \in (SnIDs \cup {FormatUint(i) : i \in DOMAIN att}) \ {id} :
         /\ overlaybdTargetPath(id) # overlaybdTargetPath(other)
         /\ overlaybdLoopbackDeviceID(id).name
              # overlaybdLoopbackDeviceID(other).name
         /\ overlaybdLoopbackDevicePath(overlaybdLoopbackDeviceID(id).name)
              # overlaybdLoopbackDevicePath(
                  overlaybdLoopbackDeviceID(other).name)
         /\ overlaybdLoopbackDeviceLunPath(overlaybdLoopbackDeviceID(id).name)
              # overlaybdLoopbackDeviceLunPath(
                  overlaybdLoopbackDeviceID(other).name)

\* C22: Remove of a key that names no layer is a no-op that succeeds,
\* whatever the environment does: the store, the directories and the
\* attachments are as they were and the transaction is ended.
C22_RemoveUnknownKeyIsNoOp ==
  ~wlock =>
    \A key \in Names, fault \in RemoveFaults \cup {"none"} :
      Stat(Store, key) = "NotFound" =>
        \E out \in {Remove(key, fault)} :
          /\ out.res = "ok"
          /\ out.rows = rows /\ out.nextId = nextId
          /\ out.dirs = dirs
          /\ out.att = att
          /\ ~out.wlock

\* A Remove has returned success from a store that never held a layer.
C22_Witness ==
  /\ lastOp.op = "Remove" /\ lastOp.res = "ok"
  /\ nextId = 1
  /\ \A key \in Names : Stat(Store, key) = "NotFound"
  /\ ~wlock

\* C23: whenever Prepare returns AlreadyExists, the layer was fulfilled
\* remotely: the request carries a snapshot.ref label and the store holds a
\* Committed layer of that name.  Prepare returns AlreadyExists for no other
\* reason, such as a key that is in use.
C23_AlreadyExistsMeansFulfilled ==
  ~wlock =>
    \A key \in Names, parent \in Names \cup {""}, labels \in PrepareLabels,
       fault \in PrepareFaults \cup {"none"} :
      \E out \in {Prepare(key, parent, labels, fault)} :
        out.res = "AlreadyExists" =>
          /\ labels.sref # ""
          /\ Stat(After(out), labels.sref) = "Committed"

\* C24: in every reachable state, for every Active layer made by a Prepare
\* that did not skip the fetch and not removed or committed since, the mount
\* list Prepare returned is one bind mount of the layer's directory with
\* the options rbind, rw, and Mounts(key) returns that list, option for
\* option in the same order.
C24_MountsRepeatsPrepare ==
  \A key \in Names :
    ( /\ Stat(Store, key) = "Active"
      /\ ~rows[key].labels.rw
      /\ issued[key] # NoMounts )
    => /\ issued[key] =
            <<[type |-> "bind",
               source |-> fsPath(rows[key].labels, rows[key].id, key),
               options |-> <<Flag("rbind"), Flag("rw")>>]>>
       /\ Mounts(key).err = ""
       /\ Mounts(key).mounts = issued[key]

\* A Remove has just succeeded under asynchronous removal.
JustRemoved ==
  cfg.asyncRemove /\ ~wlock /\ lastOp.op = "Remove" /\ lastOp.res = "ok"

\* C25: with asynchronous removal, a successful Remove(key) makes the layer
\* unavailable at once (Stat(key) fails), and the key can be used again
\* before any sweep: a following Prepare, Active or View of the same key
\* with an acceptable parent succeeds, and the directory of the new layer is
\* not the directory of the removed one.
C25_RemovedKeyIsReusable ==
  /\ (cfg.asyncRemove /\ ~wlock) =>
       \A key \in Names :
         Stat(Store, key) # "NotFound" =>
           \E out \in {Remove(key, "none")} :
             out.res = "ok" =>
               /\ Stat(After(out), key) = "NotFound"
               /\ \A labels \in ActiveLabels \cup PrepareLabels :
                    /\ fsPath(labels, out.nextId, key)
                         # fsPath(rows[key].labels, rows[key].id, key)
                    /\ fsPath([labels EXCEPT !.rw = TRUE], out.nextId, key)
                         # fsPath(rows[key].labels, rows[key].id, key)
  /\ JustRemoved =>
       \A key \in Names :
         Stat(Store, key) = "NotFound" =>
           /\ \A parent \in Parents :
                (parent = "" \/ Stat(Store, parent) = "Committed") =>
                  Prepare(key, parent, NoLabels, "none").res = "ok"
           /\ \A parent \in Names, labels \in ActiveLabels :
                Stat(Store, parent) = "Committed" =>
                  /\ Active(key, parent, labels, "none").res = "ok"
                  /\ View(key, parent, labels, "none").res = "ok"

\* C26: in every state a successful Cleanup leaves, no layer id outside the
\* store's live ids has a target directory, a loopback node or a LUN link,
\* whatever calls, failed ones among them, came before.
C26_CleanupLeavesNoStaleAttachment ==
  (lastOp.op = "Cleanup" /\ lastOp.res = "ok") =>
    \A id \in Ids \ IDMap(Store) :
      ~att[id].target /\ ~att[id].loop /\ ~att[id].link

\* C27: a hard failure of the quota provider (the backing image cannot be
\* created, formatted or mounted) makes Active fail: Active never returns
\* success for a layer whose requested quota mount is missing.
C27_HardQuotaFailureFailsActive ==
  \A key \in Names, parent \in Names, labels \in ActiveLabels :
    LET out == Active(key, parent, labels, "quotaSetup")
        dir == fsPath([labels EXCEPT !.rw = TRUE], out.nextId - 1, key)
    IN  (cfg.quotaDriver /\ getActiveQuota(labels).size > 0 /\ out.res = "ok")
          => HasDir(out.dirs, dir) /\ out.dirs[dir].quotaMounted

\* What the translation is to make of an entry whose base name begins with
\* the whiteout prefix: a character device 0/0 with the header's owner.
WhiteoutDevice(hdr) ==
  [kind |-> "chr", uid |-> hdr.Uid, gid |-> hdr.Gid, rdev |-> 0,
   opaque |-> FALSE]

\* C28: whiteout translation goes by the base name of the entry.  The
\* opaque marker is dropped and, unless the call fails, its directory is
\* made opaque and nothing else changes; any other name with the whiteout
\* prefix is dropped and, unless the call fails, a character device 0/0
\* with the header's uid and gid appears at the path with the prefix taken
\* off the name, and nothing else changes; every other entry is kept,
\* without error and without any change to the tree.
C28_WhiteoutTranslation ==
  \A hdr \in Headers, path \in EntryPaths(arch.fs), fault \in WhiteoutFaults :
    LET r    == OverlayConvertWhiteout(arch.fs, hdr, path, fault)
        base == Base(path)
        dir  == Dir(path)
        orig == Append(dir, SubSeq(base, Len(whiteoutPrefix) + 1, Len(base)))
    IN  IF base = whiteoutOpaqueDir
          THEN /\ ~r.keep
               /\ r.err = "" => r.fs = [arch.fs EXCEPT ![dir].opaque = TRUE]
               /\ r.err # "" => r.fs = arch.fs
        ELSE IF HasPrefix(base, whiteoutPrefix)
          THEN /\ ~r.keep
               /\ r.err = "" =>
                    /\ orig \notin DOMAIN arch.fs
                    /\ r.fs = PutNode(arch.fs, orig, WhiteoutDevice(hdr))
        ELSE r.keep /\ r.err = "" /\ r.fs = arch.fs

\* A whiteout of foo by uid 1000 has just been translated into a device
\* of that owner, in a tree with an opaque directory and no entry left
\* under a whiteout name.
C28_Witness ==
  /\ arch.count > 0
  /\ arch.last.err = ""
  /\ ~arch.last.keep
  /\ Base(arch.last.path) = whiteoutPrefix \o Foo
  /\ arch.last.hdr.Uid = 1000
  /\ Append(Dir(arch.last.path), Foo) \in DOMAIN arch.fs
  /\ arch.fs[Append(Dir(arch.last.path), Foo)] = WhiteoutDevice(arch.last.hdr)
  /\ Append(Dir(arch.last.path), Foo) \notin DOMAIN arch.before
  /\ \E p \in DOMAIN arch.fs : arch.fs[p].opaque
  /\ \A p \in DOMAIN arch.fs \ {<<>>} : ~HasPrefix(Base(p), whiteoutPrefix)

\* An image in use: a listed container refers to it, the whitelist names
\* one of its tags or digests, or the whitelist expression matches one of
\* its tags.
InUse(img, containers, policy) ==
  \/ img.ID \in containers
  \/ (img.RepoTags \cup img.RepoDigests) \cap policy.Whitelist # {}
  \/ \E tag \in img.RepoTags : MatchString(policy.WhitelistGoRegex, tag)

\* C29: no pass of pruneImages removes an image in use.  Of the images
\* listed when the pass begins, those a listed container refers to, those
\* the whitelist names by tag or digest and those with a tag the whitelist
\* expression matches are not handed to RemoveImage and are still listed
\* when the pass ends.
C29_UsedImagesAreNeverRemoved ==
  [][gc'.passes # gc.passes =>
       \A img \in gc.listed :
         InUse(img, gc.containers, gc.policy) =>
           /\ img.ID \notin gc'.last.removed
           /\ img.ID \notin gc'.last.failed
           /\ img \in gc'.listed]_vars

\* A pass removed an image while the runtime held an image with a
\* container, an image the whitelist names by digest and an image the
\* whitelist expression matches; all of them are still listed.
C29_Witness ==
  /\ gc.passes > 0
  /\ gc.last.removed = {imageID("hijk")}
  /\ imageID("abc") \in gc.containers
  /\ imageDigest("pause") \in gc.policy.Whitelist
  /\ MatchString(gc.policy.WhitelistGoRegex, imageTag("abc"))
  /\ {makeImage("pause", size1k), makeImage("abc", size8k)} \subseteq gc.listed
  /\ {imageID("pause"), imageID("abc")} \subseteq DOMAIN gc.images

\* C30: a pass of pruneImages at gc time t removes only images it knew
\* before the pass, detected at least MinAge before t and last used
\* before t; so the pass that first detects an image does not remove it.
\* No step changes the detection time of an image the collector keeps a
\* record of.
C30_PruneRespectsAgeAndUse ==
  [][/\ gc'.passes # gc.passes =>
          \A id \in gc'.last.removed :
            /\ id \in DOMAIN gc.images
            /\ gc'.last.gctime - gc.images[id].detected >= gc.policy.MinAge
            /\ gc.images[id].lastUsed < gc'.last.gctime
     /\ \A id \in DOMAIN gc.images \cap DOMAIN gc'.images :
          gc'.images[id].detected = gc.images[id].detected]_vars

\* A pass removed an image and kept another that was never in use and
\* was detected in an earlier pass, less than MinAge before the gc time.
C30_Witness ==
  /\ gc.passes > 1
  /\ gc.last.removed # {}
  /\ \E img \in gc.listed :
       /\ ~InUse(img, gc.containers, gc.policy)
       /\ img.ID \in DOMAIN gc.images
       /\ gc.images[img.ID].lastUsed = ZeroTime
       /\ gc.images[img.ID].detected < gc.last.gctime
       /\ gc.last.gctime - gc.images[img.ID].detected < gc.policy.MinAge

\* The images a pass at gc time t may remove, judged by the records the
\* collector held before the pass: listed, not in use, known before the
\* pass, detected at least MinAge before t and last used before t.
Eligible(g, t) ==
  {img.ID : img \in {i \in g.listed :
     /\ ~InUse(i, g.containers, g.policy)
     /\ i.ID \in DOMAIN g.images
     /\ t - g.images[i.ID].detected >= g.policy.MinAge
     /\ g.images[i.ID].lastUsed < t}}

\* The size of the listed image with this id.
ListedSize(g, id) == (CHOOSE img \in g.listed : img.ID = id).SizeBytes

RECURSIVE SumSizes(_, _)
SumSizes(g, ids) ==
  IF ids = {} THEN 0
  ELSE LET id == CHOOSE x \in ids : TRUE
       IN  ListedSize(g, id) + SumSizes(g, ids \ {id})

\* Image a comes before image b: used less recently, or as recently and
\* detected earlier.
Before(g, a, b) ==
  \/ g.images[a].lastUsed < g.images[b].lastUsed
  \/ /\ g.images[a].lastUsed = g.images[b].lastUsed
     /\ g.images[a].detected < g.images[b].detected

\* C31: a pass of pruneImages removes eligible images only, least
\* recently used first and earliest detected first among equals: an
\* eligible image it neither removed nor failed to remove comes before no
\* removed image, and is left only because the freed size has reached the
\* requested total.  The pass stops as soon as that total is reached: the
\* freed size without the last image removed is below it.  The freed size
\* is the sum of the sizes of the removed images, and the records kept are
\* those of the listed images that were not removed.
C31_PruneOrderAndAccounting ==
  [][gc'.passes # gc.passes =>
       LET t       == gc'.last.gctime
           removed == gc'.last.removed
           failed  == gc'.last.failed
           left    == Eligible(gc, t) \ (removed \cup failed)
       IN  /\ removed \cup failed \subseteq Eligible(gc, t)
           /\ \A e \in left :
                /\ gc'.last.freed >= gc'.last.totalSize
                /\ \A r \in removed \cup failed : ~Before(gc, e, r)
           /\ removed # {} =>
                \E r \in removed :
                  /\ \A q \in removed : ~Before(gc, r, q)
                  /\ gc'.last.freed - ListedSize(gc, r) < gc'.last.totalSize
           /\ gc'.last.freed = SumSizes(gc, removed)
           /\ DOMAIN gc'.images = {img.ID : img \in gc.listed} \ removed
           /\ gc'.listed = {img \in gc.listed : img.ID \notin removed}]_vars

\* A pass has stopped at the requested total: it removed one image and
\* left another it could have removed, which the collector still knows.
C31_Witness ==
  /\ gc.passes > 1
  /\ Cardinality(gc.last.removed) = 1
  /\ gc.last.freed >= gc.last.totalSize
  /\ gc.last.failed = {}
  /\ Eligible(gc, gc.last.gctime) # {}

\* What calculateFreeSizes is to return for a capacity above 0 and no more
\* available than the capacity, computed in full, without wrapping: the
\* usage in percent, the size to free, and whether that size is below 0.
ExactUsagePercent(st) ==
  100 - DivPercent(MulSmall(st.availableBytes, 100), st.capacityBytes)

ExactTarget(policy, st) ==
  DivSmall(MulSmall(st.capacityBytes, 100 - policy.LowThresholdPercent), 100)

\* a + b for two numbers of five limbs whose sum has no more.
Add5(a, b) ==
  LET s1 == a[1] + b[1]
      s2 == a[2] + b[2] + s1 \div Limb
      s3 == a[3] + b[3] + s2 \div Limb
      s4 == a[4] + b[4] + s3 \div Limb
      s5 == a[5] + b[5] + s4 \div Limb
  IN  <<s1 % Limb, s2 % Limb, s3 % Limb, s4 % Limb, s5 % Limb>>

\* C39: for a policy the constructor accepts, calculateFreeSizes returns
\* an error and no size when the capacity is 0 or less than what is
\* available; otherwise 0 and no error when the usage in percent is below
\* HighThresholdPercent; otherwise capacity * (100 - LowThresholdPercent)
\* / 100 less the available bytes, a difference that is not below 0.
C39_FreeSizeIsExact ==
  \A avail \in Sizes64, cap \in Sizes64 :
    LET st  == [availableBytes |-> avail, capacityBytes |-> cap]
        got == calculateFreeSizes(gc.policy, st)
    IN  gc.handler = "ready" =>
          IF cap = Zero64 \/ ~Leq(avail, cap)
            THEN got.err # "" /\ got.size = Zero64
          ELSE IF ExactUsagePercent(st) < gc.policy.HighThresholdPercent
            THEN got = NoNeed
          ELSE /\ got.err = ""
               /\ Leq(Ext(avail), ExactTarget(gc.policy, st))
               /\ Add5(Ext(got.size), Ext(avail)) = ExactTarget(gc.policy, st)

\* The deferred function that undoes a step of the attach, for the steps
\* that leave something behind.
ReverseOf ==
  [mkTarget |-> "target", enable |-> "kill", mkLoop |-> "loopback",
   mkLun |-> "loopback", symlink |-> "link"]

InSeq(x, seq) == \E i \in DOMAIN seq : seq[i] = x

\* C32: when the attach of an absent attachment fails at any step, what
\* it leaves is what its registered deferred functions make, run last
\* registered first, of the parts made so far; every step passed that
\* leaves something behind has its reverse action registered; every
\* registered reverse action belongs to a step that was reached; and the
\* SIGINT is registered before the reverse actions of the later steps, so
\* that it is sent after they have run.
C32_AttachCompensationsAreLIFO ==
  \A id \in Ids, fault \in AttachFaults :
    att[id] = Absent =>
      LET n  == StepIndex(StepOf(fault))
          ds == Deferred(fault)
      IN  /\ doOverlayBD(att[id], fault).att =
               RunAllDeferred(MadeBefore(att[id], fault), ds)
          /\ \A step \in DOMAIN ReverseOf :
               StepIndex(step) < n => InSeq(ReverseOf[step], ds)
          /\ \A step \in DOMAIN ReverseOf :
               InSeq(ReverseOf[step], ds) =>
                 \E s2 \in DOMAIN ReverseOf :
                   ReverseOf[s2] = ReverseOf[step] /\ StepIndex(s2) <= n
          /\ \A i, j \in DOMAIN ds :
               (ds[i] = "kill" /\ ds[j] \in {"loopback", "link"}) => i < j

\* C33: for every history of the service's result file, the wait of an
\* attach succeeds exactly when the text success is written within the
\* budget; it fails before the budget is spent only on reading a
\* non-empty text other than success, which it reports; a file that is
\* missing or still empty keeps it polling to the end of the budget; and
\* the loopback node is made only after success has been read.
C33_ReadinessPollingWaitsForContent ==
  \A id \in Ids, log \in Logs :
    att[id] = Absent =>
      LET r   == waitReady(retryTimes, log)
          out == doOverlayBD(att[id], r.fault)
      IN  /\ r.fault = "none" <=>
               (log.text = "success" /\ log.writtenAt < retryTimes)
          /\ r.fault = "readyBad" =>
               /\ r.data = log.text
               /\ r.data \notin {"", "success"}
          /\ (log.writtenAt >= retryTimes) =>
               (r.fault = "readyTimeout" /\ r.attempts = retryTimes)
          /\ out.att.loop => r.data = "success"

\* The lower list of the descriptor in directory d of the files fs.
LowersOf(fs, d) == ReadConfig(fs[d]).config.Lowers

\* C34: a constructor that succeeds leaves every other directory's
\* descriptor as it was, and the lower list it writes starts with the
\* parent's lower list (a plain root layer's with the one entry of the
\* base-layer directory, a turboOCI root layer's with nothing); a plain
\* layer adds one entry of digest, size and its directory, a turboOCI
\* layer one entry of its directory, meta file and target digest, and a
\* writable layer adds none and names its index and data files as upper.
C34_LowerListExtendsParent ==
  [][(stack'.err = "" /\ stack'.op # "none") =>
       LET dir  == stack'.dir
           pd   == stack'.parentDir
           op   == stack'.op
           mine == LowersOf(stack'.files, dir)
           base == IF pd # "" THEN LowersOf(stack.files, pd)
                   ELSE IF op = "plain"
                     THEN <<[NoLower EXCEPT !.Dir = "/opt/overlaybd/baselayers"]>>
                   ELSE <<>>
           new  == mine[Len(mine)]
       IN  /\ \A d \in SnDirs \ {dir} : stack'.files[d] = stack.files[d]
           /\ Len(mine) = Len(base) + (IF op = "writable" THEN 0 ELSE 1)
           /\ SubSeq(mine, 1, Len(base)) = base
           /\ op = "plain" =>
                /\ new.Digest = "sha256:aa" /\ new.Dir = dir
                /\ stack'.labels[2] = <<"4", "0", "9", "6", "0">> =>
                     new.Size = 40960
                /\ new.File = "" /\ new.TargetDigest = ""
           /\ op = "turbo" =>
                /\ new.Dir = dir /\ new.TargetDigest = "sha256:cc"
                /\ new.File = FilepathJoin(dir, "ext4.fs.meta")
                /\ new.Digest = "" /\ new.Size = 0
           /\ op = "writable" =>
                ReadConfig(stack'.files[dir]).config.Upper =
                  [Index |-> FilepathJoin(dir, ".data_index"),
                   Data |-> FilepathJoin(dir, ".data_file")]
           /\ op # "writable" =>
                ReadConfig(stack'.files[dir]).config.Upper =
                  [Index |-> "", Data |-> ""]]_vars

\* A writable layer has been made on a plain layer that has a plain root
\* layer as its parent: its lower list has the base layer and both.
C34_Witness ==
  /\ stack.op = "writable" /\ stack.err = ""
  /\ Len(LowersOf(stack.files, stack.dir)) = 3
  /\ LowersOf(stack.files, stack.dir)[1].Dir = "/opt/overlaybd/baselayers"
  /\ LowersOf(stack.files, stack.dir)[3].Digest = "sha256:aa"

\* The outcome of the plain or the turboOCI constructor on the files as
\* they are.
Construct(op, labels, snDir, parentDir) ==
  IF op = "plain"
    THEN ConstructOverlayBDSpec(stack.files, ParentKey(parentDir), labels,
           snDir, parentDir, "sha256:aa", <<"1">>, "none")
  ELSE ConstructTurboOCISpec(stack.files, ParentKey(parentDir), labels,
         snDir, parentDir, "none")

\* C35: for the plain and the turboOCI constructor alike, a root layer
\* without the image-reference label or with a reference that does not
\* parse is refused as InvalidArgument, a layer whose parent's descriptor
\* cannot be read is refused as Internal, a refusal writes no descriptor,
\* and a layer with a readable parent and no label is given a descriptor
\* with the parent's repo blob URL.
C35_ImageRefRequiredOnlyForRoots ==
  \A op \in {"plain", "turbo"}, snDir \in NewDirs, labels \in StackLabels :
    \A parentDir \in ParentDirs(snDir) :
      LET out      == Construct(op, labels, snDir, parentDir)
          badLabel == ~labels.hasRef \/ labels.ref = BadRef
          pc       == ReadParent(stack.files, parentDir)
      IN  /\ (parentDir = "" /\ badLabel) =>
               (out.err = "InvalidArgument" /\ out.files = stack.files)
          /\ (parentDir # "" /\ pc.err # "") =>
               (out.err = "Internal" /\ out.files = stack.files)
          /\ (parentDir # "" /\ pc.err = "" /\ ~labels.hasRef) =>
               /\ out.err = ""
               /\ ReadConfig(out.files[snDir]).config.RepoBlobURL =
                    pc.config.RepoBlobURL

ReadFaults == {"none", "getInfo", "getSnapshot", "diskUsage", "walk"}

UpdateFaults == {"updateInfo", "getInfo", "txcommit"}

\* C36: with the writer free, Mounts, Stat, Usage and Walk have ended
\* their read transaction when they return, with or without an error and
\* whatever step fails, and an Update leaves the writer free on every
\* return, so that the next write transaction can begin.
C36_EveryReturnEndsTheTransaction ==
  ~wlock =>
    \A key \in Names :
      /\ \A fault \in ReadFaults :
           /\ MountsTx(key, fault).ended
           /\ StatTx(key, fault).ended
           /\ UsageTx(key, fault).ended
           /\ WalkTx(fault).ended
      /\ \A fault \in UpdateFaults \cup {"none"} :
           ~Update(key, fault).wlock

\* C38: with the writer free, a Remove that returns an error - the
\* unmount, the driver's Cleanup, the quota removal, the removal of the
\* active path, the store or the commit failing - has changed nothing:
\* the store has the layer's row as before, the writer is free, and the
\* layer's directories, mounts and attachment are as they were.
C38_RemoveIsAllOrNothing ==
  ~wlock =>
    \A key \in Names, fault \in RemoveFaults \cup {"none"} :
      LET out == Remove(key, fault)
      IN  Failed(out) =>
            /\ RolledBack(out)
            /\ out.dirs = dirs
            /\ out.att = att

\* The directories of the layers the store has, with no transaction open.
LiveDirs ==
  {p \in DOMAIN dirs :
     /\ p.base \in {"root", cfg.defaultUpperDir}
     /\ p.id \in IDMap(Store)}

\* C37: whatever calls come between the listing of a Cleanup and its
\* removals, a removal made while no transaction is open removes no
\* directory of a layer the store has at that moment.
C37_SweepSparesLiveLayers ==
  [][\A p \in Procs :
       (calls[p].pc = "sweep" /\ calls'[p].pc = "idle" /\ ~wlock) =>
         \A d \in LiveDirs : d \in DOMAIN dirs']_vars

====
